---- MODULE Spec2Model ----
(***************************************************************************)
(* Derandomized shallow shadows (dss): the weight oracle (tensor-network   *)
(* contraction of a brickwork measurement circuit), the confidence cost    *)
(* function and the greedy derandomization loop, as a state machine.       *)
(*                                                                         *)
(* Numbers.  The program computes in float64.  The model computes the same *)
(* expressions exactly: a real is a reduced fraction <<num, den>>, and a   *)
(* tensor is a row-major array of integer numerators over one common       *)
(* denominator.  eta enters only through exp(-eta/2), so a configuration   *)
(* carries q = exp(-eta/2) and the model draws eta from the values for     *)
(* which q is rational (eta = 2 ln 2 gives q = 1/2).                       *)
(***************************************************************************)
EXTENDS Integers, Sequences, FiniteSets, TLC

----------------------------------------------------------------------------
(* Exact arithmetic on fractions <<num, den>>, den > 0, in lowest terms.   *)

RECURSIVE Gcd(_, _)
Gcd(a, b) == IF b = 0 THEN a ELSE Gcd(b, a % b)

Abs(a) == IF a < 0 THEN -a ELSE a

Rat(n, d) ==
    LET s == IF d < 0 THEN -1 ELSE 1
        g == Gcd(Abs(n), Abs(d))
    IN  <<(s * n) \div g, (s * d) \div g>>

RInt(n) == <<n, 1>>

RAdd(x, y) ==
    LET g == Gcd(x[2], y[2])
    IN  Rat(x[1] * (y[2] \div g) + y[1] * (x[2] \div g), (x[2] \div g) * y[2])

RMul(x, y) ==
    LET g1 == Gcd(Abs(x[1]), y[2])
        g2 == Gcd(Abs(y[1]), x[2])
    IN  Rat((x[1] \div g1) * (y[1] \div g2), (x[2] \div g2) * (y[2] \div g1))

RSub(x, y) == RAdd(x, <<-y[1], y[2]>>)

RInv(x) == Rat(x[2], x[1])

\* x < y, compared through the integer parts first so that the cross
\* products stay small
RLess(x, y) ==
    LET fx == x[1] \div x[2]
        fy == y[1] \div y[2]
        g  == Gcd(x[2], y[2])
    IN  IF fx # fy THEN fx < fy
        ELSE (x[1] - fx * x[2]) * (y[2] \div g) < (y[1] - fy * y[2]) * (x[2] \div g)

RGeq(x, y) == ~RLess(x, y)

\* x ** k for an integer k (a negative k inverts, as float ** does)
RECURSIVE RPow(_, _)
RPow(x, k) ==
    IF k = 0 THEN RInt(1)
    ELSE IF k < 0 THEN RPow(RInv(x), -k)
    ELSE RMul(x, RPow(x, k - 1))

\* math.floor
RFloor(x) == x[1] \div x[2]

----------------------------------------------------------------------------
(* Tensors: [shape, data, den]; entry (i1,..,ik) is data[flat+1] / den     *)
(* with flat the row-major offset, as in a C-contiguous numpy array.       *)

\* folds over f[lo..hi], split in halves to keep the evaluation shallow
RECURSIVE SumRange(_, _, _)
SumRange(f, lo, hi) ==
    IF lo > hi THEN 0
    ELSE IF lo = hi THEN f[lo]
    ELSE SumRange(f, lo, (lo + hi) \div 2) + SumRange(f, ((lo + hi) \div 2) + 1, hi)

SumSeq(f, n) == SumRange(f, 1, n)

RECURSIVE ProdRange(_, _, _)
ProdRange(f, lo, hi) ==
    IF lo > hi THEN 1
    ELSE IF lo = hi THEN f[lo]
    ELSE ProdRange(f, lo, (lo + hi) \div 2) * ProdRange(f, ((lo + hi) \div 2) + 1, hi)

ProdSeq(f, n) == ProdRange(f, 1, n)

Size(shape) == ProdSeq(shape, Len(shape))

\* (data \o <<>> makes the array an explicit tuple, so that every entry is
\* computed once, when the tensor is built)
Tensor(shape, data, den) == [shape |-> shape, data |-> data \o <<>>, den |-> den]

At1(T, a) == T.data[a + 1]
At2(T, a, b) == T.data[a * T.shape[2] + b + 1]
At3(T, a, b, c) == T.data[(a * T.shape[2] + b) * T.shape[3] + c + 1]
At4(T, a, b, c, d) ==
    T.data[((a * T.shape[2] + b) * T.shape[3] + c) * T.shape[4] + d + 1]

\* numpy reshape of a contiguous array: the data stay, the shape changes
Reshape(T, shape) == Tensor(shape, T.data, T.den)

\* np.transpose of a matrix
Transpose(T) ==
    LET r == T.shape[1]
        c == T.shape[2]
    IN  Tensor(<<c, r>>,
               [k \in 1..(r * c) |-> At2(T, (k - 1) % r, (k - 1) \div r)],
               T.den)

\* the same tensor with the common factor of its numerators and its
\* denominator removed (the value of every entry is unchanged)
RECURSIVE GcdRange(_, _, _)
GcdRange(f, lo, hi) ==
    IF lo = hi THEN Abs(f[lo])
    ELSE Gcd(GcdRange(f, lo, (lo + hi) \div 2), GcdRange(f, ((lo + hi) \div 2) + 1, hi))

Reduce(T) ==
    LET g == Gcd(GcdRange(T.data, 1, Len(T.data)), T.den)
    IN  Tensor(T.shape, [k \in 1..Len(T.data) |-> T.data[k] \div g], T.den \div g)

\* tensors given by their entries
Tensor2(n1, n2, den, E(_, _)) ==
    Tensor(<<n1, n2>>,
           [x \in 1..(n1 * n2) |-> E((x - 1) \div n2, (x - 1) % n2)],
           den)

Tensor3(n1, n2, n3, den, E(_, _, _)) ==
    Tensor(<<n1, n2, n3>>,
           [x \in 1..(n1 * n2 * n3) |->
               E((x - 1) \div (n2 * n3), ((x - 1) \div n3) % n2, (x - 1) % n3)],
           den)

Tensor4g(n1, n2, n3, n4, den, E(_, _, _, _)) ==
    Tensor(<<n1, n2, n3, n4>>,
           [x \in 1..(n1 * n2 * n3 * n4) |->
               E((x - 1) \div (n2 * n3 * n4), ((x - 1) \div (n3 * n4)) % n2,
                 ((x - 1) \div n4) % n3, (x - 1) % n4)],
           den)

Tensor4(n, den, E(_, _, _, _)) ==
    Tensor(<<n, n, n, n>>,
           [x \in 1..(n * n * n * n) |->
               E(((x - 1) \div (n * n * n)) % n, ((x - 1) \div (n * n)) % n,
                 ((x - 1) \div n) % n, (x - 1) % n)],
           den)

Tensor5(n1, n2, n3, n4, n5, den, E(_, _, _, _, _)) ==
    Tensor(<<n1, n2, n3, n4, n5>>,
           [x \in 1..(n1 * n2 * n3 * n4 * n5) |->
               E((x - 1) \div (n2 * n3 * n4 * n5), ((x - 1) \div (n3 * n4 * n5)) % n2,
                 ((x - 1) \div (n4 * n5)) % n3, ((x - 1) \div n5) % n4, (x - 1) % n5)],
           den)

At5(T, a, b, c, d, e) ==
    T.data[(((a * T.shape[2] + b) * T.shape[3] + c) * T.shape[4] + d) * T.shape[5] + e + 1]

\* the sum of E(0), ..., E(n-1)
Sum(n, E(_)) == SumSeq([a \in 1..n |-> E(a - 1)], n)

----------------------------------------------------------------------------
(* gates.py: the gate library.  Pauli index 0=I, 1=X, 2=Y, 3=Z.            *)

identity_gate == Tensor4(4, 1, LAMBDA a, b, k, l : IF 4 * a + b = 4 * k + l THEN 1 ELSE 0)

swap_gate == Tensor4(4, 1, LAMBDA a, b, k, l : At4(identity_gate, a, b, l, k))

CNOT_MPO ==
    << <<1, 0, 0, 0, 0, 0, 0, 0, 0, 0, 0, 0, 0, 0, 0, 0>>,
       <<0, 1, 0, 0, 0, 0, 0, 0, 0, 0, 0, 0, 0, 0, 0, 0>>,
       <<0, 0, 0, 0, 0, 0, 0, 0, 0, 0, 0, 0, 0, 0, 1, 0>>,
       <<0, 0, 0, 0, 0, 0, 0, 0, 0, 0, 0, 0, 0, 0, 0, 1>>,
       <<0, 0, 0, 0, 0, 1, 0, 0, 0, 0, 0, 0, 0, 0, 0, 0>>,
       <<0, 0, 0, 0, 1, 0, 0, 0, 0, 0, 0, 0, 0, 0, 0, 0>>,
       <<0, 0, 0, 0, 0, 0, 0, 0, 0, 0, 0, 1, 0, 0, 0, 0>>,
       <<0, 0, 0, 0, 0, 0, 0, 0, 0, 0, 1, 0, 0, 0, 0, 0>>,
       <<0, 0, 0, 0, 0, 0, 0, 0, 0, 1, 0, 0, 0, 0, 0, 0>>,
       <<0, 0, 0, 0, 0, 0, 0, 0, 1, 0, 0, 0, 0, 0, 0, 0>>,
       <<0, 0, 0, 0, 0, 0, 0, 1, 0, 0, 0, 0, 0, 0, 0, 0>>,
       <<0, 0, 0, 0, 0, 0, 1, 0, 0, 0, 0, 0, 0, 0, 0, 0>>,
       <<0, 0, 0, 0, 0, 0, 0, 0, 0, 0, 0, 0, 1, 0, 0, 0>>,
       <<0, 0, 0, 0, 0, 0, 0, 0, 0, 0, 0, 0, 0, 1, 0, 0>>,
       <<0, 0, 1, 0, 0, 0, 0, 0, 0, 0, 0, 0, 0, 0, 0, 0>>,
       <<0, 0, 0, 1, 0, 0, 0, 0, 0, 0, 0, 0, 0, 0, 0, 0>> >>

\* a cnot_gate that returns the identity's tensor
cnot_gate_identity == identity_gate

cnot_gate == Tensor4(4, 1, LAMBDA a, b, k, l : CNOT_MPO[4 * a + b + 1][4 * k + l + 1])

\* (0,0) block: identity_gate()[0][0]; every other block: (2/30)*(ones - that)
u2_gate ==
    Tensor4(4, 30, LAMBDA r, c, k, l :
        IF r = 0 /\ c = 0
        THEN 30 * At4(identity_gate, 0, 0, k, l)
        ELSE 2 * (1 - At4(identity_gate, 0, 0, k, l)))

Matrix4(den, rows) ==
    Tensor(<<4, 4>>, [x \in 1..16 |-> rows[((x - 1) \div 4) + 1][((x - 1) % 4) + 1]], den)

\* a gate1 that exchanges X and Z
gate1_hadamard == Matrix4(1, << <<1,0,0,0>>, <<0,0,0,1>>, <<0,0,1,0>>, <<0,1,0,0>> >>)

gate1 == Matrix4(1, << <<1,0,0,0>>, <<0,1,0,0>>, <<0,0,1,0>>, <<0,0,0,1>> >>)
gate2 == Matrix4(1, << <<1,0,0,0>>, <<0,1,0,0>>, <<0,0,0,1>>, <<0,0,1,0>> >>)
gate3 == Matrix4(1, << <<1,0,0,0>>, <<0,0,1,0>>, <<0,1,0,0>>, <<0,0,0,1>> >>)
gate4 == Matrix4(1, << <<1,0,0,0>>, <<0,0,0,1>>, <<0,1,0,0>>, <<0,0,1,0>> >>)
gate5 == Matrix4(1, << <<1,0,0,0>>, <<0,0,1,0>>, <<0,0,0,1>>, <<0,1,0,0>> >>)
gate6 == Matrix4(1, << <<1,0,0,0>>, <<0,0,0,1>>, <<0,0,1,0>>, <<0,1,0,0>> >>)

\* a random gate without the factor 1/3
random_singleq_gate_ones ==
    Matrix4(1, << <<1,0,0,0>>, <<0,1,1,1>>, <<0,1,1,1>>, <<0,1,1,1>> >>)

\* [[1,0,0,0],[0,1/3,1/3,1/3],[0,1/3,1/3,1/3],[0,1/3,1/3,1/3]]
random_singleq_gate ==
    Matrix4(3, << <<3,0,0,0>>, <<0,1,1,1>>, <<0,1,1,1>>, <<0,1,1,1>> >>)

----------------------------------------------------------------------------
(* circuit.py: twirling and the reduction to identity / non-identity.      *)

Sum4(E(_)) == E(0) + E(1) + E(2) + E(3)

\* np.einsum('ia,jb,ck,dl,abcd->ijkl', tw, tw, tw, tw, two_q_gate), summed
\* one leg after the other (the sum is finite and exact, so the order of
\* summation does not change it)
twirl_leg_a(tw, t) ==
    Tensor4(4, tw.den * t.den, LAMBDA i, b, c, d :
        Sum4(LAMBDA a : At2(tw, i, a) * At4(t, a, b, c, d)))

twirl_leg_b(tw, t) ==
    Tensor4(4, tw.den * t.den, LAMBDA i, j, c, d :
        Sum4(LAMBDA b : At2(tw, j, b) * At4(t, i, b, c, d)))

twirl_leg_c(tw, t) ==
    Tensor4(4, tw.den * t.den, LAMBDA i, j, k, d :
        Sum4(LAMBDA c : At2(tw, c, k) * At4(t, i, j, c, d)))

twirl_leg_d(tw, t) ==
    Tensor4(4, tw.den * t.den, LAMBDA i, j, k, l :
        Sum4(LAMBDA d : At2(tw, d, l) * At4(t, i, j, k, d)))

local_twirl(two_q_gate) ==
    Reduce(twirl_leg_d(random_singleq_gate,
           twirl_leg_c(random_singleq_gate,
           twirl_leg_b(random_singleq_gate,
           twirl_leg_a(random_singleq_gate, two_q_gate)))))

\* np.concatenate((t[:,:,0:1,:], np.sum(t[:,:,1:,:], axis=2, keepdims=True)), axis=2)
sig_part2(t) ==
    Tensor4g(4, 4, 2, 4, t.den, LAMBDA a, b, c, d :
        IF c = 0 THEN At4(t, a, b, 0, d)
        ELSE At4(t, a, b, 1, d) + At4(t, a, b, 2, d) + At4(t, a, b, 3, d))

\* the same on axis 3
sig_part3(t) ==
    Tensor4g(4, 4, 2, 2, t.den, LAMBDA a, b, c, d :
        IF d = 0 THEN At4(t, a, b, c, 0)
        ELSE At4(t, a, b, c, 1) + At4(t, a, b, c, 2) + At4(t, a, b, c, 3))

\* part3[0:2, 0:2, :, :]
sig_corner(t) == Tensor4(2, t.den, LAMBDA a, b, c, d : At4(t, a, b, c, d))

local_twirl_sig(two_q_gate) ==
    Reduce(sig_corner(sig_part3(sig_part2(local_twirl(two_q_gate)))))

\* make_twrld_sig_twoq_set, bound at import of cost.py
tw_id == local_twirl(identity_gate)
tw_cx == local_twirl(cnot_gate)
tw_sw == local_twirl(swap_gate)
tw_u2 == local_twirl(u2_gate)
twsig_id == local_twirl_sig(tw_id)
twsig_cx == local_twirl_sig(tw_cx)
twsig_sw == local_twirl_sig(tw_sw)
twsig_u2 == local_twirl_sig(tw_u2)

\* np.where(mask[:, None], [0, 1.], [1., 0])
initial_state_sig(mask) ==
    [s \in 1..Len(mask) |->
        IF mask[s] THEN Tensor(<<2>>, <<0, 1>>, 1) ELSE Tensor(<<2>>, <<1, 0>>, 1)]

----------------------------------------------------------------------------
(* tensor_contractions.py: dressed_gates_contract.  state is the sequence  *)
(* of the N boundary vectors, gate_config_full[layer][pair] a gate tensor. *)

\* the outcome of a call that ends in raise ValueError("Unsupported bond
\* dimension factor") instead of returning a number: no fraction has den 0
ValueError == <<0, 0>>

pair_input_states(state, N, depth_parity) ==
    LET offset == IF depth_parity = 0 THEN 1 ELSE 0
    IN  [i \in 1..(N \div 2) |->
            <<state[((2 * (i - 1) + offset) % N) + 1],
              state[((2 * (i - 1) + 1 + offset) % N) + 1]>>]

\* np.einsum('a,b,abkl->kl', s1, s2, gate)
einsum_initial(s1, s2, gate) ==
    Tensor2(gate.shape[3], gate.shape[4], s1.den * s2.den * gate.den,
        LAMBDA k, l : Sum(gate.shape[1], LAMBDA a : Sum(gate.shape[2], LAMBDA b :
            At1(s1, a) * At1(s2, b) * At4(gate, a, b, k, l))))

apply_initial_gates(paired_states, gate_layer, depth_parity) ==
    [i \in 1..Len(paired_states) |->
        LET contracted == einsum_initial(paired_states[i][1], paired_states[i][2],
                                         gate_layer[i])
        IN  IF depth_parity = 0 THEN Transpose(contracted) ELSE contracted]

reshape_for_temporal_contraction(matrices, bond_dim, depth_parity) ==
    [i \in 1..Len(matrices) |->
        Reshape(matrices[i], IF depth_parity = 0 THEN <<1, bond_dim, bond_dim>>
                                                 ELSE <<bond_dim, 1, bond_dim>>)]

\* get_measurement_tensor: raises unless bond_dim is 4 or 2
get_measurement_tensor_raises(bond_dim) == bond_dim # 4 /\ bond_dim # 2

get_measurement_tensor(bond_dim) ==
    IF bond_dim = 4 THEN Tensor(<<4>>, <<1, 0, 0, 1>>, 1)
    ELSE Tensor(<<2>>, <<3, 1>>, 3)      \* [1, 1/3]

\* one pass of the loop of apply_middle_layers, on one pair s:
\* parity 0: einsum('sijk,sakcd->siacjd').reshape(s, i*bd^2, j, bd)
\* parity 1: einsum('sijk,skbcd->sijbdc').reshape(s, i, j*bd^2, bd)
middle_layer(chain, gate, parity, bond_dim) ==
    LET I == chain.shape[1]
        J == chain.shape[2]
        K == chain.shape[3]
    IN  IF parity = 0
        THEN Reshape(Tensor5(I, bond_dim, bond_dim, J, bond_dim, chain.den * gate.den,
                        LAMBDA i, a, c, j, d :
                            Sum(K, LAMBDA k : At3(chain, i, j, k) * At4(gate, a, k, c, d))),
                     <<I * bond_dim * bond_dim, J, bond_dim>>)
        ELSE Reshape(Tensor5(I, J, bond_dim, bond_dim, bond_dim, chain.den * gate.den,
                        LAMBDA i, j, b, d, c :
                            Sum(K, LAMBDA k : At3(chain, i, j, k) * At4(gate, k, b, c, d))),
                     <<I, J * bond_dim * bond_dim, bond_dim>>)

\* for d in range(depth - 2, 0, -1), from layer d downwards
RECURSIVE apply_middle_layers(_, _, _, _)
apply_middle_layers(tensor_chain, gate_config, bond_dim, d) ==
    IF d < 1 THEN tensor_chain
    ELSE apply_middle_layers(
             [s \in 1..Len(tensor_chain) |->
                 middle_layer(tensor_chain[s], gate_config[d + 1][s], d % 2, bond_dim)] \o <<>>,
             gate_config, bond_dim, d - 1)

\* np.einsum('k,l,ijkl->ij', meas_tensor, meas_tensor, g)
einsum_meas(meas_tensor, g) ==
    Tensor2(g.shape[1], g.shape[2], meas_tensor.den * meas_tensor.den * g.den,
        LAMBDA i, j : Sum(g.shape[3], LAMBDA k : Sum(g.shape[4], LAMBDA l :
            At1(meas_tensor, k) * At1(meas_tensor, l) * At4(g, i, j, k, l))))

\* einsum('sijk,sak->siaj').reshape(s, i*bd, j), on one pair s
final_layer(chain, dressed, bond_dim) ==
    LET I == chain.shape[1]
        J == chain.shape[2]
        K == chain.shape[3]
    IN  Reshape(Tensor3(I, dressed.shape[1], J, chain.den * dressed.den,
                    LAMBDA i, a, j : Sum(K, LAMBDA k : At3(chain, i, j, k) * At2(dressed, a, k))),
                <<I * bond_dim, J>>)

apply_final_layer(tensor_chain, final_gates, meas_tensor, bond_dim) ==
    [s \in 1..Len(tensor_chain) |->
        final_layer(tensor_chain[s], einsum_meas(meas_tensor, final_gates[s]), bond_dim)]

\* np.matmul
MatMul(A, B) ==
    Tensor2(A.shape[1], B.shape[2], A.den * B.den,
        LAMBDA i, k : Sum(A.shape[2], LAMBDA j : At2(A, i, j) * At2(B, j, k)))

\* reduce(np.matmul, tensor_chain): ((M1 M2) M3) ...
RECURSIVE reduce_matmul(_, _)
reduce_matmul(tensor_chain, n) ==
    IF n = 1 THEN tensor_chain[1]
    ELSE MatMul(reduce_matmul(tensor_chain, n - 1), tensor_chain[n])

\* np.trace
Trace(M) ==
    LET n == IF M.shape[1] < M.shape[2] THEN M.shape[1] ELSE M.shape[2]
    IN  Rat(Sum(n, LAMBDA i : At2(M, i, i)), M.den)

\* depth == 1: np.prod(np.einsum('a,b,sab->s', meas, meas, chain))
close_depth_one(tensor_chain, meas_tensor, bond_dim) ==
    LET closed(M) == Sum(bond_dim, LAMBDA a : Sum(bond_dim, LAMBDA b :
                         At1(meas_tensor, a) * At1(meas_tensor, b) * At2(M, a, b)))
        nums == [s \in 1..Len(tensor_chain) |->
                    closed(Reshape(tensor_chain[s], <<bond_dim, bond_dim>>))]
        dens == [s \in 1..Len(tensor_chain) |->
                    meas_tensor.den * meas_tensor.den * tensor_chain[s].den]
    IN  Rat(ProdSeq(nums, Len(nums)), ProdSeq(dens, Len(dens)))

dressed_gates_contract(N, depth, state, gate_config_full, bond_dim_factor) ==
    LET depth_parity == depth % 2
        paired_input_states == pair_input_states(state, N, depth_parity)
        first_layer_gates == gate_config_full[depth]
        chain0 == apply_initial_gates(paired_input_states, first_layer_gates, depth_parity)
        chain1 == reshape_for_temporal_contraction(chain0, bond_dim_factor, depth_parity) \o <<>>
        meas_tensor == get_measurement_tensor(bond_dim_factor)
    IN  IF get_measurement_tensor_raises(bond_dim_factor) THEN ValueError
        ELSE IF depth = 1 THEN close_depth_one(chain1, meas_tensor, bond_dim_factor)
        ELSE LET chain2 == apply_middle_layers(chain1, gate_config_full,
                                               bond_dim_factor, depth - 2)
                 chain3 == apply_final_layer(chain2, gate_config_full[1],
                                             meas_tensor, bond_dim_factor) \o <<>>
             IN  Trace(reduce_matmul(chain3, Len(chain3)))

----------------------------------------------------------------------------
(* tensor_contractions.py: dress_twoq_gates.                               *)

get_two_qubit_gate_dict(g) ==
    CASE g = 0 -> identity_gate
      [] g = 1 -> cnot_gate
      [] g = 2 -> swap_gate
      [] g = 3 -> u2_gate

get_single_qubit_gate_dict(g) ==
    CASE g = 0 -> random_singleq_gate
      [] g = 1 -> gate1
      [] g = 2 -> gate2
      [] g = 3 -> gate3
      [] g = 4 -> gate4
      [] g = 5 -> gate5
      [] g = 6 -> gate6

\* np.roll(layer, k): the entry at i moves to (i + k) mod n
Roll(layer, k) ==
    LET n == Len(layer)
    IN  [i \in 1..n |-> layer[(((i - 1) - k) % n) + 1]]

\* np.flip(s_config, axis=0), then np.roll(layer, -((i + (i == last)) % 2))
reorder_single_qubit_config(s_config) ==
    LET last_index == Len(s_config) - 1
        flipped == [i \in 1..Len(s_config) |-> s_config[Len(s_config) + 1 - i]]
    IN  [i \in 1..Len(s_config) |->
            Roll(flipped[i],
                 -(((i - 1) + (IF i - 1 = last_index THEN 1 ELSE 0)) % 2))]

\* np.einsum('ak,bl,ijab->ijkl', s1, s2, d), summed over b and then over a
einsum_dress_out(s1, s2, d) ==
    LET overb == Tensor4(4, s2.den * d.den, LAMBDA i, j, a, l :
                     Sum4(LAMBDA b : At2(s2, b, l) * At4(d, i, j, a, b)))
    IN  Tensor4(4, s1.den * overb.den, LAMBDA i, j, k, l :
            Sum4(LAMBDA a : At2(s1, a, k) * At4(overb, i, j, a, l)))

\* np.einsum('ia,jb,abkl->ijkl', s1, s2, d), summed over a and then over b
einsum_dress_in(s1, s2, d) ==
    LET overa == Tensor4(4, s1.den * d.den, LAMBDA i, b, k, l :
                     Sum4(LAMBDA a : At2(s1, i, a) * At4(d, a, b, k, l)))
    IN  Tensor4(4, s2.den * overa.den, LAMBDA i, j, k, l :
            Sum4(LAMBDA b : At2(s2, j, b) * At4(overa, i, b, k, l)))

\* a dressing whose four-leg layer is the first layer of gate_config
dress_twoq_gates_outer_first(gate_config, single_qubit_config) ==
    LET depth == Len(gate_config)
        canonical_single_config == reorder_single_qubit_config(single_qubit_config)
        single_gates_full(r, c) == get_single_qubit_gate_dict(canonical_single_config[r][c])
        twoq_gates_full(r, c) == get_two_qubit_gate_dict(gate_config[r][c])
        dressed(r, i) == einsum_dress_out(single_gates_full(r, 2 * i - 1),
                                          single_gates_full(r, 2 * i),
                                          twoq_gates_full(r, i))
    IN  [r \in 1..depth |->
            [i \in 1..Len(gate_config[r]) |->
                IF r = 1
                THEN einsum_dress_in(single_gates_full(depth + 1, 2 * i - 1),
                                     single_gates_full(depth + 1, 2 * i),
                                     dressed(r, i))
                ELSE dressed(r, i)] \o <<>>] \o <<>>

\* gate_config: depth rows of N/2 gate indices; single_qubit_config: depth+1
\* rows of N symbols
dress_twoq_gates(gate_config, single_qubit_config) ==
    LET depth == Len(gate_config)
        canonical_single_config == reorder_single_qubit_config(single_qubit_config)
        single_gates_full(r, c) == get_single_qubit_gate_dict(canonical_single_config[r][c])
        twoq_gates_full(r, c) == get_two_qubit_gate_dict(gate_config[r][c])
        dressed(r, i) == einsum_dress_out(single_gates_full(r, 2 * i - 1),
                                          single_gates_full(r, 2 * i),
                                          twoq_gates_full(r, i))
    IN  [r \in 1..depth |->
            [i \in 1..Len(gate_config[r]) |->
                IF r = depth
                THEN einsum_dress_in(single_gates_full(depth + 1, 2 * i - 1),
                                     single_gates_full(depth + 1, 2 * i),
                                     dressed(r, i))
                ELSE dressed(r, i)] \o <<>>] \o <<>>

----------------------------------------------------------------------------
(* cost.py: the weight oracle.                                             *)

twrld_sig_twoq_dict(g) ==
    CASE g = 0 -> twsig_id
      [] g = 1 -> twsig_cx
      [] g = 2 -> twsig_sw
      [] g = 3 -> twsig_u2

\* mask: sequence of N booleans; gate_config: depth rows of N/2 gate indices
calculate_weight_structure(N, mask, depth, gate_config) ==
    LET gate_config_full ==
            [r \in 1..Len(gate_config) |->
                [i \in 1..Len(gate_config[r]) |-> twrld_sig_twoq_dict(gate_config[r][i])]]
        state == initial_state_sig(mask)
    IN  dressed_gates_contract(N, depth, state, gate_config_full, 2)

\* single_qubit_config.reshape((depth + 1, N))
reshape_rows(flat, rows, cols) ==
    [r \in 1..rows |-> [c \in 1..cols |-> flat[(r - 1) * cols + c]]]

\* pauli_mask: sequence of N Pauli codes (0:I, 1:X, 2:Y, 3:Z)
calculate_weight_single_qubit(N, pauli_mask, single_qubit_config, gate_config) ==
    LET depth == Len(gate_config)
        dressed_gates == dress_twoq_gates(gate_config,
                                          reshape_rows(single_qubit_config, depth + 1, N))
        state == [s \in 1..Len(pauli_mask) |->
                     Tensor(<<4>>, [i \in 1..4 |-> IF i - 1 = pauli_mask[s] THEN 1 ELSE 0], 1)]
    IN  dressed_gates_contract(N, depth, state, dressed_gates, 4)

weight_of_all_Paulis(N, single_qubit_config, gate_config, pauli_strings_to_learn) ==
    [l \in 1..Len(pauli_strings_to_learn) |->
        calculate_weight_single_qubit(N, pauli_strings_to_learn[l],
                                      single_qubit_config, gate_config)]

----------------------------------------------------------------------------
(* cost.py: the confidence cost functions.  A database maps the bytes of a *)
(* configuration array to the list of the observables' weights under it.   *)

RECURSIVE flatten(_)
flatten(rows) == IF rows = <<>> THEN <<>> ELSE Head(rows) \o flatten(Tail(rows))

\* an encoding that keeps the lowest bit of v only
int64_bytes_parity(v) == << v % 2, 0, 0, 0, 0, 0, 0, 0 >>

\* the 8 little-endian bytes of the int64 v, 0 <= v < 2^31
int64_bytes(v) ==
    << v % 256, (v \div 256) % 256, (v \div 65536) % 256, v \div 16777216,
       0, 0, 0, 0 >>

\* the 8 little-endian bytes of the IEEE 754 double of the whole number v,
\* 0 <= v < 32: sign 0, biased exponent 1023 + e, mantissa (v - 2^e) * 2^(52-e)
float64_bytes(v) ==
    IF v = 0 THEN <<0, 0, 0, 0, 0, 0, 0, 0>>
    ELSE LET e == CHOOSE x \in 0..4 : 2^x <= v /\ v < 2^(x + 1)
         IN  << 0, 0, 0, 0, 0, (((v - 2^e) * 4096) \div 2^e) % 256,
                ((1023 + e) % 16) * 16 + ((v - 2^e) * 16) \div 2^e,
                (1023 + e) \div 16 >>

\* ndarray.tobytes(): the raw bytes of the flattened array, 8 per element;
\* the shape and the dtype are not part of the bytes.
tobytes(dtype, flat) ==
    flatten([i \in 1..Len(flat) |->
                IF dtype = "int64" THEN int64_bytes(flat[i]) ELSE float64_bytes(flat[i])])

\* np.frombuffer(key, dtype=int64): the elements a key's bytes encode
frombuffer_int64(key) ==
    [i \in 1..(Len(key) \div 8) |->
        key[8 * i - 7] + 256 * key[8 * i - 6] + 65536 * key[8 * i - 5]
            + 16777216 * key[8 * i - 4]]

\* 3 * np.ones((depth, N // 2)): a float64 array
random_config(depth, N) == [r \in 1..depth |-> [i \in 1..(N \div 2) |-> 3]]

random_key(depth, N) == tobytes("float64", flatten(random_config(depth, N)))

\* the sum of the fractions f[1..n], accumulated in index order
RECURSIVE RSum(_, _)
RSum(f, n) == IF n = 0 THEN RInt(0) ELSE RAdd(RSum(f, n - 1), f[n])

\* the test with > in place of >=
at_target_strict(hits_l, weight_l, mpo) ==
    RLess(RInt(RFloor(RMul(weight_l, RInt(mpo)))), hits_l)

\* count_hits[l] >= math.floor(weight[l] * num_of_measurements_per_observable)
at_target(hits_l, weight_l, mpo) ==
    RGeq(hits_l, RInt(RFloor(RMul(weight_l, RInt(mpo)))))

\* math.exp((-eta / 2) * count_hits[l]) = q ** count_hits[l]; count_hits[l]
\* is a whole number in every state of a run (see whole_hits)
cost_l_fixed(q, hits_l) == CASE hits_l[2] = 1 -> RPow(q, hits_l[1])

\* the exponent of cost_l_randomized
future_measurements(total_measurements, num_so_far) ==
    total_measurements - num_so_far - 1

\* one observable's term of the cost sum
cost_term(q, total_measurements, num_so_far, hits_l, weight_l, config_weight_l, random_weight_l) ==
    LET nu == RSub(RInt(1), q)
        cost_l_paritial == RSub(RInt(1), RMul(nu, config_weight_l))
        cost_l_randomized ==
            RPow(RSub(RInt(1), RMul(nu, random_weight_l)),
                 future_measurements(total_measurements, num_so_far))
    IN  RMul(weight_l, RMul(RMul(cost_l_fixed(q, hits_l), cost_l_paritial),
                            cost_l_randomized))

\* the CALCULATE COST FUNCTION loop shared by the two cost functions
cost_loop(q, total_measurements, num_so_far, config_weights, random_config_weights, hits, weight, mpo, num_paulis) ==
    RSum([i \in 1..num_paulis |->
            IF at_target(hits[i], weight[i], mpo) THEN RInt(0)
            ELSE cost_term(q, total_measurements, num_so_far, hits[i], weight[i],
                           config_weights[i], random_config_weights[i])],
         num_paulis)

\* the weights of structure_config: read from the database on a hit,
\* computed by the oracle on a miss
structure_config_weights(N, depth, structure_config, pauli_masks, database) ==
    LET key == tobytes("int64", flatten(structure_config))
    IN  IF key \in DOMAIN database THEN database[key]
        ELSE [i \in 1..Len(pauli_masks) |->
                 calculate_weight_structure(N, pauli_masks[i], depth, structure_config)]
             \o <<>>

\* returns the cost and the structure database as the call leaves it; w is
\* the list structure_config_weights, built once and used for both
confidence_cost_function_structure(N, depth, q, total_measurements, num_so_far, structure_config, pauli_masks, hits, database, weight, mpo) ==
    CHOOSE result \in
        { [cost |-> cost_loop(q, total_measurements, num_so_far, w,
                              database[random_key(depth, N)], hits, weight, mpo,
                              Len(pauli_masks)),
           structure_database |->
               IF tobytes("int64", flatten(structure_config)) \in DOMAIN database
               THEN database
               ELSE database @@ (tobytes("int64", flatten(structure_config)) :> w)] :
          w \in {structure_config_weights(N, depth, structure_config, pauli_masks,
                                          database)} } : TRUE

\* np.concatenate((column_test, gate_config.flatten())).tobytes()
single_qubit_key(column_test, gate_config) ==
    tobytes("int64", column_test \o flatten(gate_config))

fully_fixed_config_weights(N, column_test, gate_config, pauli_strings_to_learn, database) ==
    LET key == single_qubit_key(column_test, gate_config)
    IN  IF key \in DOMAIN database THEN database[key]
        ELSE [i \in 1..Len(pauli_strings_to_learn) |->
                 calculate_weight_single_qubit(N, pauli_strings_to_learn[i],
                                               column_test, gate_config)] \o <<>>

\* returns the cost and the single-qubit database as the call leaves it; w
\* is the list fully_fixed_config_weights, built once and used for both
confidence_cost_function_single_qubit(N, depth, q, total_measurements, num_so_far, column_test, gate_config, pauli_strings_to_learn, pauli_masks, hits, s_database, q_database, weight, mpo) ==
    CHOOSE result \in
        { [cost |-> cost_loop(q, total_measurements, num_so_far, w,
                              s_database[random_key(depth, N)], hits, weight, mpo,
                              Len(pauli_masks)),
           single_qubit_database |->
               IF single_qubit_key(column_test, gate_config) \in DOMAIN q_database
               THEN q_database
               ELSE q_database @@ (single_qubit_key(column_test, gate_config) :> w)] :
          w \in {fully_fixed_config_weights(N, column_test, gate_config,
                                            pauli_strings_to_learn, q_database)} } : TRUE

----------------------------------------------------------------------------
(* derandomization.py: setup_structure_database.                           *)

setup_structure_database(N, depth, pauli_masks) ==
    random_key(depth, N) :>
        ([i \in 1..Len(pauli_masks) |->
            calculate_weight_structure(N, pauli_masks[i], depth, random_config(depth, N))]
         \o <<>>)

----------------------------------------------------------------------------
(* config.py: the configurations a run is started on.                      *)

\* astype(bool) of the Pauli codes: True for X, Y, Z and False for I
astype_bool(pauli_strings) ==
    [i \in 1..Len(pauli_strings) |->
        [s \in 1..Len(pauli_strings[i]) |-> pauli_strings[i][s] # 0]]

DSSConfig(N, depth, q, max_num_measurements, measurements_per_observable, pauli_strings_to_learn, weights) ==
    [N |-> N, depth |-> depth, q |-> q,
     max_num_measurements |-> max_num_measurements,
     measurements_per_observable |-> measurements_per_observable,
     pauli_strings_to_learn |-> pauli_strings_to_learn,
     pauli_masks |-> astype_bool(pauli_strings_to_learn),
     weights |-> weights]

MaxBudget == 2
MaxPerObservable == 2

\* exp(-eta/2) for eta = 2 ln 2
Q == <<1, 2>>

\* observables with their importance weights, on 2 qubits and 1 layer
Problems ==
    { [paulis |-> << <<3, 3>> >>,            weights |-> << <<1, 1>> >>],
      [paulis |-> << <<3, 3>> >>,            weights |-> << <<2, 1>> >>],
      [paulis |-> << <<1, 0>>, <<3, 0>> >>,  weights |-> << <<1, 1>>, <<1, 1>> >>],
      [paulis |-> << <<0, 0>>, <<2, 1>> >>,  weights |-> << <<1, 2>>, <<1, 1>> >>],
      [paulis |-> << <<3, 0>>, <<0, 3>>, <<1, 3>> >>,
                                             weights |-> << <<1, 1>>, <<1, 1>>, <<1, 1>> >>],
      [paulis |-> <<>>,                      weights |-> <<>>] }

\* two observables on 4 qubits and 2 layers, budget 1, two per observable
Deep ==
    DSSConfig(4, 2, Q, 1, 2, << <<0, 3, 0, 3>>, <<3, 0, 3, 3>> >>, << <<1, 2>>, <<3, 1>> >>)

Configs ==
    { DSSConfig(2, 1, Q, B, mpo, p.paulis, p.weights) :
        B \in 0..MaxBudget, mpo \in 0..MaxPerObservable, p \in Problems }
    \cup {Deep}

----------------------------------------------------------------------------
(* derandomization.py: the run as a state machine.                         *)

VARIABLES
    dss_data,                        \* the DSSConfig of the run
    pc,                              \* the position of full_derandomization
    m,                               \* the measurement being derandomized
    count_hits,
    single_qubit_database,
    structure_database,
    structure_measurement_settings,
    measurement_settings,
    sd,                              \* the locals of structure_derandomization
    sq,                              \* the locals of single_qubit_derandomization
    contraction                      \* the locals of a direct call of dressed_gates_contract

vars == <<dss_data, pc, m, count_hits, single_qubit_database, structure_database,
          structure_measurement_settings, measurement_settings, sd, sq, contraction>>

\* the value of sd and sq while the function is not running
NoFrame == [idle |-> TRUE]

\* an empty dict
EmptyDict == [k \in {} |-> <<>>]

num_paulis == Len(dss_data.pauli_masks)

\* the loop bound with one pass too many
loop_bound_plus_one == dss_data.measurements_per_observable * num_paulis + 1

loop_bound == dss_data.measurements_per_observable * num_paulis

Start(config) ==
    /\ dss_data = config
    /\ pc = "call"
    /\ m = 0
    /\ count_hits = <<>>
    /\ single_qubit_database = EmptyDict
    /\ structure_database = EmptyDict
    /\ structure_measurement_settings = <<>>
    /\ measurement_settings = <<>>
    /\ sd = NoFrame
    /\ sq = NoFrame
    /\ contraction = NoFrame

Init == \E config \in Configs : Start(config)

\* an array one entry too long
np_zeros_long(n) == [i \in 1..(n + 1) |-> RInt(0)]

\* np.zeros(n)
np_zeros(n) == [i \in 1..n |-> RInt(0)]

\* full_derandomization with databases that outlive the call: the entry
\* adds the fully-random key to whatever they hold
Enter_keeps_databases ==
    /\ pc = "call"
    /\ single_qubit_database' = single_qubit_database
    /\ structure_database' =
           setup_structure_database(dss_data.N, dss_data.depth, dss_data.pauli_masks)
               @@ structure_database
    /\ structure_measurement_settings' = <<>>
    /\ measurement_settings' = <<>>
    /\ count_hits' = [i \in 1..num_paulis |-> RInt(0)]
    /\ m' = 0
    /\ pc' = "loop"
    /\ UNCHANGED <<dss_data, sd, sq, contraction>>

\* full_derandomization up to its loop: the databases, the two lists, the
\* hit counter
Enter ==
    /\ pc = "call"
    /\ single_qubit_database' = EmptyDict
    /\ structure_database' =
           setup_structure_database(dss_data.N, dss_data.depth, dss_data.pauli_masks)
    /\ structure_measurement_settings' = <<>>
    /\ measurement_settings' = <<>>
    /\ count_hits' = np_zeros(num_paulis)
    /\ m' = 0
    /\ pc' = "loop"
    /\ UNCHANGED <<dss_data, sd, sq, contraction>>

\* best_config = 0 * np.ones(...), best_cost = 100000
structure_entry_zeros(config) ==
    [best_config |-> [r \in 1..config.depth |-> [i \in 1..(config.N \div 2) |-> 0]],
     best_cost |-> RInt(100000),
     l |-> 0, g |-> 0, gate |-> 0]

\* structure_derandomization before its loops
structure_entry(config) ==
    [best_config |-> [r \in 1..config.depth |-> [i \in 1..(config.N \div 2) |-> 3]],
     best_cost |-> RInt(100000),
     l |-> 0, g |-> 0, gate |-> 0]

\* range(0, 7)
first_gate_choice_zero == Len(<<>>)

\* range(1, 7): the first and the last gate_choice
first_gate_choice == 1
last_gate_choice == 6

\* single_qubit_derandomization before its loop
single_qubit_entry(config) ==
    [best_single_qubit_gates |-> [i \in 1..(config.N * (config.depth + 1)) |-> 0],
     min_cost |-> RInt(1000),
     single_qubit_box |-> 0, gate_choice |-> first_gate_choice]

\* the for statement of the measurement loop: the next measurement starts
\* with the structure pass
LoopNext ==
    /\ pc = "loop"
    /\ m < loop_bound
    /\ sd' = structure_entry(dss_data)
    /\ pc' = "structure"
    /\ UNCHANGED <<dss_data, m, count_hits, single_qubit_database, structure_database,
                   structure_measurement_settings, measurement_settings, sq, contraction>>

\* the loop is exhausted: the return after the loop
LoopExit ==
    /\ pc = "loop"
    /\ m >= loop_bound
    /\ pc' = "return"
    /\ UNCHANGED <<dss_data, m, count_hits, single_qubit_database, structure_database,
                   structure_measurement_settings, measurement_settings, sd, sq, contraction>>

\* array[r][i] = v on a copy, r and i counted from 0
set_cell(array, r, i, v) == [array EXCEPT ![r + 1][i + 1] = v]

\* array[i] = v on a copy, i counted from 0
set_item(array, i, v) == [array EXCEPT ![i + 1] = v]

\* best_config after `best_config[l][g] = 0`, which runs before the first
\* candidate of a cell
in_place_config ==
    IF sd.gate = 0 THEN set_cell(sd.best_config, sd.l, sd.g, 0) ELSE sd.best_config

\* this_config: the candidate whose cost the next step evaluates
candidate_config == set_cell(in_place_config, sd.l, sd.g, sd.gate)

\* one pass of the body of the gate loop of structure_derandomization, with
\* the in-place write that precedes the loop in each cell and, after the last
\* candidate of the last cell, the return into full_derandomization, which
\* appends the structure and enters single_qubit_derandomization
StructureStep ==
    /\ pc = "structure"
    /\ \E in_place \in {in_place_config} :
       \E this_config \in {candidate_config} :
       \E call \in {confidence_cost_function_structure(
                       dss_data.N, dss_data.depth, dss_data.q,
                       dss_data.max_num_measurements, m, this_config,
                       dss_data.pauli_masks, count_hits, structure_database,
                       dss_data.weights, dss_data.measurements_per_observable)} :
       \E better \in {RLess(call.cost, sd.best_cost)} :
       LET this_cost == call.cost
           best_config == IF better THEN this_config ELSE in_place
           best_cost == IF better THEN this_cost ELSE sd.best_cost
           last_g == sd.g = (dss_data.N \div 2) - 1
           last_l == sd.l = dss_data.depth - 1
       IN  /\ structure_database' = call.structure_database
           /\ IF sd.gate = 2 /\ last_g /\ last_l
              THEN /\ structure_measurement_settings' =
                          Append(structure_measurement_settings, best_config)
                   /\ sd' = NoFrame
                   /\ sq' = single_qubit_entry(dss_data)
                   /\ pc' = "single"
              ELSE /\ sd' = [best_config |-> best_config,
                             best_cost |-> best_cost,
                             l |-> IF sd.gate = 2 /\ last_g THEN sd.l + 1 ELSE sd.l,
                             g |-> IF sd.gate < 2 THEN sd.g
                                   ELSE IF last_g THEN 0 ELSE sd.g + 1,
                             gate |-> IF sd.gate = 2 THEN 0 ELSE sd.gate + 1]
                   /\ UNCHANGED <<structure_measurement_settings, sq, pc>>
    /\ UNCHANGED <<dss_data, m, count_hits, single_qubit_database, measurement_settings,
                   contraction>>

\* the structure chosen for the measurement being derandomized
best_two_qubit_gates ==
    structure_measurement_settings[Len(structure_measurement_settings)]

\* best_single_qubit_gates after `best_single_qubit_gates[single_qubit_box] = 1`,
\* which runs before the first candidate of a slot
in_place_gates ==
    IF sq.gate_choice = first_gate_choice
    THEN set_item(sq.best_single_qubit_gates, sq.single_qubit_box, 1)
    ELSE sq.best_single_qubit_gates

\* test_one_gates: the candidate whose cost the next step evaluates
candidate_gates == set_item(in_place_gates, sq.single_qubit_box, sq.gate_choice)

\* one pass of the body of the gate_choice loop of
\* single_qubit_derandomization, with the in-place write that precedes the
\* loop in each slot and, after the last candidate of the last slot, the
\* return into full_derandomization, which appends the configuration
SingleQubitStep ==
    /\ pc = "single"
    /\ \E in_place \in {in_place_gates} :
       \E test_one_gates \in {candidate_gates} :
       \E call \in {confidence_cost_function_single_qubit(
                       dss_data.N, dss_data.depth, dss_data.q,
                       dss_data.max_num_measurements, m, test_one_gates,
                       best_two_qubit_gates, dss_data.pauli_strings_to_learn,
                       dss_data.pauli_masks, count_hits, structure_database,
                       single_qubit_database, dss_data.weights,
                       dss_data.measurements_per_observable)} :
       \E better \in {RLess(call.cost, sq.min_cost)} :
       LET cost_test == call.cost
           best_single_qubit_gates == IF better THEN test_one_gates ELSE in_place
           min_cost == IF better THEN cost_test ELSE sq.min_cost
           last_box == sq.single_qubit_box = dss_data.N * (dss_data.depth + 1) - 1
       IN  /\ single_qubit_database' = call.single_qubit_database
           /\ IF sq.gate_choice = last_gate_choice /\ last_box
              THEN /\ measurement_settings' =
                          Append(measurement_settings, best_single_qubit_gates)
                   /\ sq' = NoFrame
                   /\ pc' = "update"
              ELSE /\ sq' = [best_single_qubit_gates |-> best_single_qubit_gates,
                             min_cost |-> min_cost,
                             single_qubit_box |-> IF sq.gate_choice = last_gate_choice
                                                  THEN sq.single_qubit_box + 1
                                                  ELSE sq.single_qubit_box,
                             gate_choice |-> IF sq.gate_choice = last_gate_choice
                                             THEN first_gate_choice
                                             ELSE sq.gate_choice + 1]
                   /\ UNCHANGED <<measurement_settings, pc>>
    /\ UNCHANGED <<dss_data, m, count_hits, structure_database,
                   structure_measurement_settings, sd, contraction>>

\* count_hits + 2 * weight_of_all_Paulis(...)
add_hits_double(hits, weights_now) ==
    [i \in 1..Len(hits) |-> RAdd(hits[i], RMul(RInt(2), weights_now[i]))]

\* count_hits - weight_of_all_Paulis(...)
add_hits_minus(hits, weights_now) ==
    [i \in 1..Len(hits) |-> RSub(hits[i], weights_now[i])]

\* count_hits + weight_of_all_Paulis(...), elementwise
add_hits(hits, weights_now) ==
    [i \in 1..Len(hits) |-> RAdd(hits[i], weights_now[i])]

\* UPDATE COUNT HITS
UpdateHits ==
    /\ pc = "update"
    /\ count_hits' =
           add_hits(count_hits,
                    weight_of_all_Paulis(dss_data.N,
                                         measurement_settings[Len(measurement_settings)],
                                         best_two_qubit_gates,
                                         dss_data.pauli_strings_to_learn))
    /\ pc' = "check"
    /\ UNCHANGED <<dss_data, m, single_qubit_database, structure_database,
                   structure_measurement_settings, measurement_settings, sd, sq, contraction>>

\* Condition #1: m == dss_data.max_num_measurements
budget_reached(config, index) == index = config.max_num_measurements

\* Condition #2 with count_hits[i] > target in place of >=
all_measured_strict(config, hits) ==
    \A i \in 1..Len(config.pauli_masks) :
        RLess(RInt(RFloor(RMul(config.weights[i],
                               RInt(config.measurements_per_observable)))),
              hits[i])

\* Condition #2: success == len(dss_data.pauli_masks)
all_measured(config, hits) ==
    Cardinality({i \in 1..Len(config.pauli_masks) :
                    at_target(hits[i], config.weights[i],
                              config.measurements_per_observable)})
        = Len(config.pauli_masks)

ReturnBudget ==
    /\ pc = "check"
    /\ budget_reached(dss_data, m)
    /\ pc' = "return"
    /\ UNCHANGED <<dss_data, m, count_hits, single_qubit_database, structure_database,
                   structure_measurement_settings, measurement_settings, sd, sq, contraction>>

ReturnSuccess ==
    /\ pc = "check"
    /\ ~budget_reached(dss_data, m)
    /\ all_measured(dss_data, count_hits)
    /\ pc' = "return"
    /\ UNCHANGED <<dss_data, m, count_hits, single_qubit_database, structure_database,
                   structure_measurement_settings, measurement_settings, sd, sq, contraction>>

\* neither condition holds: the loop goes on to the next m
Continue ==
    /\ pc = "check"
    /\ ~budget_reached(dss_data, m)
    /\ ~all_measured(dss_data, count_hits)
    /\ m' = m + 1
    /\ pc' = "loop"
    /\ UNCHANGED <<dss_data, count_hits, single_qubit_database, structure_database,
                   structure_measurement_settings, measurement_settings, sd, sq, contraction>>

\* the caller starts another run, on any configuration.  What the run
\* before it left behind stays where it is until the new call rebinds it.
NewRun ==
    /\ pc = "return"
    /\ dss_data' \in Configs
    /\ pc' = "call"
    /\ UNCHANGED <<m, count_hits, single_qubit_database, structure_database,
                   structure_measurement_settings, measurement_settings, sd, sq,
                   contraction>>

Next ==
    \/ Enter
    \/ LoopNext
    \/ LoopExit
    \/ StructureStep
    \/ SingleQubitStep
    \/ UpdateHits
    \/ ReturnBudget
    \/ ReturnSuccess
    \/ Continue
    \/ NewRun

Spec == Init /\ [][Next]_vars

----------------------------------------------------------------------------
(* Properties of full_derandomization.                                     *)

\* floor(weights[i] * measurements_per_observable), observable i counted from 1
target(i) ==
    RFloor(RMul(dss_data.weights[i], RInt(dss_data.measurements_per_observable)))

\* every observable has count_hits[i] >= its target
all_at_target == \A i \in 1..Len(dss_data.pauli_masks) : count_hits[i][1] >= target(i) * count_hits[i][2]

in_loop_body == pc \in {"structure", "single", "update", "check"}

\* the number of steps of one pass of the measurement loop, and the number
\* of them already taken in the current pass
steps_per_measurement ==
    3 + 3 * dss_data.depth * (dss_data.N \div 2) + 6 * dss_data.N * (dss_data.depth + 1)

steps_taken ==
    CASE pc = "loop" -> 0
      [] pc = "structure" -> 1 + 3 * (sd.l * (dss_data.N \div 2) + sd.g) + sd.gate
      [] pc = "single" -> 1 + 3 * dss_data.depth * (dss_data.N \div 2)
                            + 6 * sq.single_qubit_box + (sq.gate_choice - 1)
      [] pc = "update" -> steps_per_measurement - 2
      [] pc = "check" -> steps_per_measurement - 1

progress == m * steps_per_measurement + steps_taken

\* C1: full_derandomization terminates within
\* measurements_per_observable * (number of observables) passes of its
\* measurement loop: every step of a run either returns or moves forward in
\* a pass whose index m is below that product, so a run takes at most
\* product * steps_per_measurement steps before its return, and the return
\* hands back at most product finalized measurements (none when it is 0).
C1_Terminates ==
    [][ (pc # "call" /\ pc # "return") =>
          \/ /\ pc' = "return"
             /\ Len(structure_measurement_settings')
                   <= dss_data.measurements_per_observable * Len(dss_data.pauli_masks)
          \/ /\ pc' \in {"loop", "structure", "single", "update", "check"}
             /\ progress' > progress
             /\ progress' <= dss_data.measurements_per_observable
                               * Len(dss_data.pauli_masks) * steps_per_measurement
             /\ pc' # "loop" =>
                   m' < dss_data.measurements_per_observable * Len(dss_data.pauli_masks)
      ]_vars

\* a run that used up its loop: as many measurements as the bound allows
C1_Witness ==
    /\ pc = "return"
    /\ dss_data.measurements_per_observable * Len(dss_data.pauli_masks) > 0
    /\ Len(structure_measurement_settings)
           = dss_data.measurements_per_observable * Len(dss_data.pauli_masks)
    /\ m = Len(structure_measurement_settings)

\* C2: a run on a configuration with max_num_measurements = B >= 1 returns
\* at most B finalized measurements.
C2_WithinBudget ==
    (pc = "return" /\ dss_data.max_num_measurements >= 1)
        => Len(structure_measurement_settings) <= dss_data.max_num_measurements

\* C3 as stated: at the return the two lists and the hit counter have the
\* same length, the number of finalized measurements.
C3_ThreeEqualLengths ==
    pc = "return" =>
        /\ Len(structure_measurement_settings) = Len(measurement_settings)
        /\ Len(count_hits) = Len(structure_measurement_settings)

\* C3: at the return the list of structures and the list of single-qubit
\* configurations have the same length, one entry per finalized measurement
\* (measurements 0..m when the return follows a finalized measurement, and
\* 0..m-1 when the loop is exhausted), and the hit counter has one entry per
\* observable.
C3_Lengths ==
    /\ pc = "check" => Len(structure_measurement_settings) = m + 1
    /\ pc = "loop" => Len(structure_measurement_settings) = m
    /\ pc \in {"check", "loop", "return"} =>
           Len(measurement_settings) = Len(structure_measurement_settings)
    /\ pc = "return" => Len(count_hits) = Len(dss_data.pauli_masks)

\* a return with finalized measurements whose number differs from the number
\* of observables
C3_Witness ==
    /\ pc = "return"
    /\ Len(structure_measurement_settings) >= 1
    /\ Len(count_hits) # Len(structure_measurement_settings)

\* C4: after a measurement is finalized the run returns exactly if m equals
\* the budget or every observable is at its target; a return happens only
\* there or at the exhausted loop; and a measurement after the first is
\* derandomized only while some observable is below its target.
C4_Return ==
    [][ /\ pc = "check" =>
              ((pc' = "return") <=> (m = dss_data.max_num_measurements \/ all_at_target))
        /\ (pc # "return" /\ pc' = "return") =>
              \/ pc = "check"
              \/ /\ pc = "loop"
                 /\ m = dss_data.measurements_per_observable * Len(dss_data.pauli_masks)
        /\ (pc' = "structure" /\ m' >= 1) => ~all_at_target' ]_vars

\* a return on success before the loop bound and away from the budget
C4_Witness ==
    /\ pc = "return"
    /\ Len(structure_measurement_settings) >= 1
    /\ Len(structure_measurement_settings)
           < dss_data.measurements_per_observable * Len(dss_data.pauli_masks)
    /\ m # dss_data.max_num_measurements
    /\ all_at_target

\* C5: within a run every count_hits[i] starts at 0 and never decreases.
C5_Monotone ==
    [][ /\ pc = "call" => \A i \in 1..Len(count_hits') : count_hits'[i] = RInt(0)
        /\ (pc # "call" /\ pc' # "call") =>
              /\ Len(count_hits') = Len(count_hits)
              /\ \A i \in 1..Len(count_hits) : RGeq(count_hits'[i], count_hits[i]) ]_vars

\* after the second measurement of a run an observable has been hit twice
C5_Witness ==
    /\ pc = "check"
    /\ m = 1
    /\ \E i \in 1..Len(count_hits) : count_hits[i] = RInt(2)

----------------------------------------------------------------------------
(* Properties of the two greedy passes.                                    *)

\* the structure of the measurement being derandomized, and how many of its
\* cells (in row-major order) are committed
current_structure == IF pc = "structure" THEN sd.best_config ELSE best_two_qubit_gates

cells_committed ==
    IF pc = "structure" THEN sd.l * (dss_data.N \div 2) + sd.g
    ELSE dss_data.depth * (dss_data.N \div 2)

\* the candidate for cell c (counted from 0 in row-major order) with gate t:
\* earlier cells as committed, later cells still 3
candidate_structure(c, t) ==
    [r \in 1..dss_data.depth |->
        [i \in 1..(dss_data.N \div 2) |->
            LET k == (r - 1) * (dss_data.N \div 2) + (i - 1)
            IN  IF k < c THEN current_structure[r][i] ELSE IF k = c THEN t ELSE 3]]

\* its structure cost, from the oracle
candidate_cost(c, t) ==
    cost_loop(dss_data.q, dss_data.max_num_measurements, m,
              [i \in 1..Len(dss_data.pauli_masks) |->
                  calculate_weight_structure(dss_data.N, dss_data.pauli_masks[i],
                                             dss_data.depth, candidate_structure(c, t))],
              structure_database[random_key(dss_data.depth, dss_data.N)],
              count_hits, dss_data.weights, dss_data.measurements_per_observable,
              Len(dss_data.pauli_masks))

\* C6: in the structure pass every committed cell holds the gate of least
\* structure cost among 0, 1, 2 (earlier cells as committed, later cells 3),
\* the first of them in the order 0, 1, 2 when several are least.
C6_Argmin ==
    pc \in {"structure", "single", "update"} =>
        \A c \in 0..(cells_committed - 1) :
            \E costs \in {[t \in 1..3 |-> candidate_cost(c, t - 1)] \o <<>>} :
                LET chosen == current_structure[(c \div (dss_data.N \div 2)) + 1]
                                               [(c % (dss_data.N \div 2)) + 1]
                IN  /\ chosen \in 0..2
                    /\ \A t \in 0..2 :
                          IF t < chosen THEN RLess(costs[chosen + 1], costs[t + 1])
                          ELSE ~RLess(costs[t + 1], costs[chosen + 1])

\* the column (s, 0, .., 0) tested in the first slot with symbol s
first_slot_key(s) ==
    single_qubit_key([i \in 1..(dss_data.N * (dss_data.depth + 1)) |->
                         IF i = 1 THEN s ELSE 0],
                     best_two_qubit_gates)

\* C7 as stated: the candidates whose cost is evaluated in a slot are the 7
\* symbols 0..6.  Every evaluation enters its column into
\* single_qubit_database, so once the first slot is done the database
\* holds the column of each of the 7 symbols in that slot.
C7_SevenCandidates ==
    (pc = "single" /\ sq.single_qubit_box >= 1) =>
        \A s \in 0..6 : first_slot_key(s) \in DOMAIN single_qubit_database

\* C7: the candidates whose cost is evaluated in a slot are the 6 symbols
\* 1..6: gate_choice is one of them, once the first slot is done the
\* database holds the columns of exactly these 6 symbols in that slot, no
\* column ever evaluated has a 0 in its first slot, and every slot of a
\* finalized Single-Qubit Configuration holds one of 1..6, never 0.
C7_SixCandidates ==
    /\ pc = "single" => sq.gate_choice \in 1..6
    /\ (pc = "single" /\ sq.single_qubit_box >= 1) =>
          \A s \in 0..6 : (first_slot_key(s) \in DOMAIN single_qubit_database) <=> s # 0
    /\ pc \in {"loop", "structure", "single", "update", "check", "return"} =>
          /\ \A key \in DOMAIN single_qubit_database : frombuffer_int64(key)[1] \in 1..6
          /\ \A k \in 1..Len(measurement_settings) :
                \A i \in 1..Len(measurement_settings[k]) :
                    measurement_settings[k][i] \in 1..6

\* a finalized configuration in which some slot holds a symbol other than
\* the 1 written in place
C7_Witness ==
    /\ pc = "update"
    /\ \E i \in 1..Len(measurement_settings[Len(measurement_settings)]) :
          measurement_settings[Len(measurement_settings)][i] \in 2..6

\* C9: within a run no key leaves either database and no stored weight
\* vector changes; and the run begins its loop with an empty single-qubit
\* database and a structure database holding the fully-random configuration
\* only, whatever an earlier run left behind.
C9_AppendOnly ==
    [][ /\ (pc # "call" /\ pc' # "call") =>
              /\ \A key \in DOMAIN structure_database :
                    /\ key \in DOMAIN structure_database'
                    /\ structure_database'[key] = structure_database[key]
              /\ \A key \in DOMAIN single_qubit_database :
                    /\ key \in DOMAIN single_qubit_database'
                    /\ single_qubit_database'[key] = single_qubit_database[key]
        /\ pc = "call" =>
              /\ DOMAIN single_qubit_database' = {}
              /\ DOMAIN structure_database'
                    = {random_key(dss_data.depth, dss_data.N)} ]_vars

\* a second run starts while the databases of the run before it are
\* populated
C9_Witness ==
    /\ pc = "call"
    /\ DOMAIN single_qubit_database # {}
    /\ Cardinality(DOMAIN structure_database) >= 2

----------------------------------------------------------------------------
\* every importance weight of the run's configuration is 1.0
unit_weights ==
    \A i \in 1..Len(dss_data.weights) : dss_data.weights[i] = RInt(1)

\* C11: in a run whose importance weights are all 1.0, no observable's hit
\* count ever exceeds measurements_per_observable, at any point of the run
\* and in the returned counter.
C11_Cap ==
    (pc # "call" /\ unit_weights) =>
        \A i \in 1..Len(count_hits) :
            RGeq(RInt(dss_data.measurements_per_observable), count_hits[i])

\* C16: whenever a cost function is evaluated in a run and an observable is
\* still below its target (so that the term is computed), the exponent
\* total_measurements - num_of_measurements_so_far - 1 is not negative.
C16_ExponentNonNegative ==
    (pc \in {"structure", "single"} /\ ~all_at_target) =>
        future_measurements(dss_data.max_num_measurements, m) >= 0

\* C17: in the structure pass every candidate evaluated while visiting a cell
\* holds a gate in {0,1,2} in that cell and in every earlier cell (row-major
\* order) and the sentinel 3 in every later cell; every structure the pass
\* has returned holds no 3.
C17_Sentinel ==
    /\ pc = "structure" =>
           \A r \in 1..dss_data.depth : \A i \in 1..(dss_data.N \div 2) :
               LET k == (r - 1) * (dss_data.N \div 2) + (i - 1)
               IN  IF k <= cells_committed THEN candidate_config[r][i] \in 0..2
                   ELSE candidate_config[r][i] = 3
    /\ \A n \in 1..Len(structure_measurement_settings) :
           \A r \in 1..dss_data.depth : \A i \in 1..(dss_data.N \div 2) :
               pc # "call" => structure_measurement_settings[n][r][i] \in 0..2

\* the second measurement of the 4-qubit, 2-layer run is at the last
\* candidate of its second cell: a cell before it, two cells after it, and
\* a returned structure
C17_Witness ==
    /\ pc = "structure" /\ m = 1 /\ dss_data.depth = 2 /\ dss_data.N = 4
    /\ sd.l = 0 /\ sd.g = 1 /\ sd.gate = 2
    /\ Len(structure_measurement_settings) = 1

\* the full weights of the observables under finalized measurement n
finalized_weights(n) ==
    weight_of_all_Paulis(dss_data.N, measurement_settings[n],
                         structure_measurement_settings[n],
                         dss_data.pauli_strings_to_learn)

\* count_hits holds whole numbers
whole_hits == \A i \in 1..Len(count_hits) : count_hits[i][2] = 1

\* finalized measurements hold concrete gates only, each observable's full
\* weight under them is 0 or 1, and every hit count is a whole number
\* between 0 and the number of finalized measurements
concrete_measurements ==
    pc # "call" =>
        /\ \A n \in 1..Len(structure_measurement_settings) :
               \A r \in 1..dss_data.depth : \A i \in 1..(dss_data.N \div 2) :
                   structure_measurement_settings[n][r][i] \in {0, 1, 2}
        /\ \A n \in 1..Len(measurement_settings) :
               /\ \A b \in 1..Len(measurement_settings[n]) :
                      measurement_settings[n][b] \in 1..6
               /\ \E w \in {finalized_weights(n)} :
                      \A i \in 1..Len(w) : w[i] \in {RInt(0), RInt(1)}
        /\ whole_hits
        /\ \A i \in 1..Len(count_hits) :
               /\ count_hits[i][1] >= 0
               /\ count_hits[i][1] <= Len(measurement_settings)

\* the update of count_hits adds 0 or 1 to each entry
hits_grow_by_bit ==
    pc = "update" =>
        \A i \in 1..Len(count_hits) :
            RSub(count_hits'[i], count_hits[i]) \in {RInt(0), RInt(1)}

\* C20: every finalized measurement consists of concrete gates only (cells
\* in {0,1,2}, slots in 1..6), so each observable's full weight under it is
\* exactly 0 or 1; each update of count_hits adds 0 or 1 to every entry, and
\* every entry is a whole number between 0 and the number of finalized
\* measurements.
C20_ConcreteHits == [](concrete_measurements) /\ [][hits_grow_by_bit]_vars

\* two measurements are finalized; one observable was hit by both, another
\* by one of them only
C20_Witness ==
    /\ pc = "check" /\ Len(measurement_settings) = 2
    /\ \E i, j \in 1..Len(count_hits) :
           count_hits[i] = RInt(2) /\ count_hits[j] = RInt(1)

\* the run of the scenario: 2 qubits, 1 layer, the observable ZZ with
\* weight 1.0, one measurement per observable, and a budget of at least one
zz_scenario ==
    /\ pc # "call"
    /\ dss_data.N = 2 /\ dss_data.depth = 1
    /\ dss_data.pauli_strings_to_learn = << <<3, 3>> >>
    /\ dss_data.weights = << RInt(1) >>
    /\ dss_data.measurements_per_observable = 1
    /\ dss_data.max_num_measurements >= 1

\* C15: in the ZZ scenario the structure pass commits CNOT (1) or SWAP (2)
\* to the only cell, never the identity, and the run returns with exactly
\* one finalized measurement and count_hits[0] >= 1.
C15_Scenario ==
    zz_scenario =>
        /\ \A n \in 1..Len(structure_measurement_settings) :
               structure_measurement_settings[n][1][1] \in {1, 2}
        /\ Len(measurement_settings) <= 1
        /\ pc = "return" =>
               /\ Len(structure_measurement_settings) = 1
               /\ Len(measurement_settings) = 1
               /\ RGeq(count_hits[1], RInt(1))

\* the scenario's run has returned, with the largest budget of the model
C15_Witness ==
    zz_scenario /\ pc = "return" /\ dss_data.max_num_measurements = MaxBudget

\* the structure configuration a key of structure_database was built from
structure_of_key(key) ==
    IF key = random_key(dss_data.depth, dss_data.N)
    THEN random_config(dss_data.depth, dss_data.N)
    ELSE reshape_rows(frombuffer_int64(key), dss_data.depth, dss_data.N \div 2)

\* the column and the structure a key of single_qubit_database was built from
column_of_key(key) ==
    SubSeq(frombuffer_int64(key), 1, dss_data.N * (dss_data.depth + 1))

gates_of_key(key) ==
    reshape_rows(SubSeq(frombuffer_int64(key), dss_data.N * (dss_data.depth + 1) + 1,
                        Len(key) \div 8),
                 dss_data.depth, dss_data.N \div 2)

\* the weights the oracle computes afresh for a structure configuration
fresh_structure_weights(structure_config) ==
    [i \in 1..Len(dss_data.pauli_masks) |->
        calculate_weight_structure(dss_data.N, dss_data.pauli_masks[i],
                                   dss_data.depth, structure_config)] \o <<>>

\* and for a column of single-qubit gates on a structure
fresh_single_qubit_weights(column_test, gate_config) ==
    [i \in 1..Len(dss_data.pauli_strings_to_learn) |->
        calculate_weight_single_qubit(dss_data.N, dss_data.pauli_strings_to_learn[i],
                                      column_test, gate_config)] \o <<>>

\* the cost of the next candidate with both caches disabled
fresh_cost ==
    cost_loop(dss_data.q, dss_data.max_num_measurements, m,
              IF pc = "structure" THEN fresh_structure_weights(candidate_config)
              ELSE fresh_single_qubit_weights(candidate_gates, best_two_qubit_gates),
              fresh_structure_weights(random_config(dss_data.depth, dss_data.N)),
              count_hits, dss_data.weights, dss_data.measurements_per_observable,
              Len(dss_data.pauli_masks))

\* the cost the next step computes for its candidate, through the caches
cached_cost ==
    IF pc = "structure"
    THEN confidence_cost_function_structure(
             dss_data.N, dss_data.depth, dss_data.q, dss_data.max_num_measurements, m,
             candidate_config, dss_data.pauli_masks, count_hits, structure_database,
             dss_data.weights, dss_data.measurements_per_observable).cost
    ELSE confidence_cost_function_single_qubit(
             dss_data.N, dss_data.depth, dss_data.q, dss_data.max_num_measurements, m,
             candidate_gates, best_two_qubit_gates, dss_data.pauli_strings_to_learn,
             dss_data.pauli_masks, count_hits, structure_database,
             single_qubit_database, dss_data.weights,
             dss_data.measurements_per_observable).cost

\* the key of the next candidate decodes to the candidate, and is not the
\* fully-random key; every key of the caches is the encoding of what it
\* decodes to
keys_faithful ==
    /\ pc = "structure" =>
           \E key \in {tobytes("int64", flatten(candidate_config))} :
               /\ key # random_key(dss_data.depth, dss_data.N)
               /\ structure_of_key(key) = candidate_config
    /\ pc = "single" =>
           \E key \in {single_qubit_key(candidate_gates, best_two_qubit_gates)} :
               /\ column_of_key(key) = candidate_gates
               /\ gates_of_key(key) = best_two_qubit_gates
    /\ pc # "call" =>
           /\ \A key \in DOMAIN structure_database :
                  \/ key = random_key(dss_data.depth, dss_data.N)
                  \/ tobytes("int64", flatten(structure_of_key(key))) = key
           /\ \A key \in DOMAIN single_qubit_database :
                  single_qubit_key(column_of_key(key), gates_of_key(key)) = key

\* the cost computed through the caches is the cost computed without them
cost_transparent ==
    pc \in {"structure", "single"} => cached_cost = fresh_cost

\* a step stores under every key it adds the weights the oracle computes
\* afresh for the configuration of the key, and changes no stored vector
stored_fresh ==
    /\ \A key \in DOMAIN structure_database' :
           IF pc # "call" /\ key \in DOMAIN structure_database
           THEN structure_database'[key] = structure_database[key]
           ELSE structure_database'[key] = fresh_structure_weights(structure_of_key(key))
    /\ \A key \in DOMAIN single_qubit_database' :
           IF pc # "call" /\ key \in DOMAIN single_qubit_database
           THEN single_qubit_database'[key] = single_qubit_database[key]
           ELSE single_qubit_database'[key] =
                    fresh_single_qubit_weights(column_of_key(key), gates_of_key(key))

\* C19: memoization is transparent.  Every vector a cache holds was stored
\* as the oracle's fresh weights for the configuration its key encodes and
\* is never changed; distinct configurations have distinct keys (the key of
\* a candidate decodes to that candidate and differs from the fully-random
\* key); and every cost evaluated in a run equals the cost computed with
\* both caches disabled.
C19_MemoTransparent ==
    [](keys_faithful /\ cost_transparent) /\ [][stored_fresh]_vars

\* in the second measurement the structure pass meets a candidate whose key
\* the first measurement stored, and a new key has been added to the other
\* cache
C19_Witness ==
    /\ pc = "structure" /\ m = 1
    /\ tobytes("int64", flatten(candidate_config)) \in DOMAIN structure_database
    /\ single_qubit_database # EmptyDict

----------------------------------------------------------------------------
(* The weight oracle, one call at a time: calculate_weight_structure,      *)
(* calculate_weight_single_qubit and dressed_gates_contract as the steps   *)
(* of their code, the call's frame in the variable contraction.            *)

MaxDepth == 3
MaxFactor == 5

\* the numbers of qubits of the calls
QubitCounts == {2, 4}

\* the Pauli strings on N qubits, as codes (0:I, 1:X, 2:Y, 3:Z)
PauliStrings(N) == [1..N -> 0..3]

\* a structure or a single-qubit configuration with every entry v
constant_rows(rows, cols, v) == [r \in 1..rows |-> [c \in 1..cols |-> v]]

\* a call of the oracle: the entry point and its arguments; gate_dim is the
\* dimension of the legs of the gate tensors the contraction is given
OracleCall(entry, N, depth, pauli, single_qubit_config, gate_config, gate_dim, bond_dim_factor) ==
    [entry |-> entry, N |-> N, depth |-> depth, pauli |-> pauli,
     single_qubit_config |-> single_qubit_config, gate_config |-> gate_config,
     gate_dim |-> gate_dim, bond_dim_factor |-> bond_dim_factor]

\* calculate_weight_single_qubit on the all-identity circuit, for every
\* observable: on 2 qubits up to MaxDepth layers, on 4 qubits up to 2 layers
IdentityCalls ==
    UNION { { OracleCall("calculate_weight_single_qubit", N, depth, pauli,
                         [b \in 1..(N * (depth + 1)) |-> 1],
                         constant_rows(depth, N \div 2, 0), 4, 4) :
                depth \in 1..(IF N = 2 THEN MaxDepth ELSE 2), pauli \in PauliStrings(N) } :
            N \in QubitCounts }

\* calculate_weight_structure as setup_structure_database and the structure
\* pass call it: every mask, every structure over {0,1,2,3}; on 2 qubits for
\* every depth from 0, on 4 qubits for one layer
StructureCalls ==
    UNION { { OracleCall("calculate_weight_structure", 2, depth, pauli, <<>>,
                         gate_config, 2, 2) :
                pauli \in [1..2 -> {0, 3}], gate_config \in [1..depth -> [1..1 -> 0..3]] } :
            depth \in 0..MaxDepth }
    \cup
    { OracleCall("calculate_weight_structure", 4, 1, pauli, <<>>, gate_config, 2, 2) :
        pauli \in [1..4 -> {0, 3}], gate_config \in [1..1 -> [1..2 -> 0..3]] }

\* symbols of a slot: random, and a 3-cycle of X, Y, Z
SlotSample == {0, 5}

\* calculate_weight_single_qubit as the single-qubit pass and the update of
\* count_hits call it
SingleQubitCalls ==
    { OracleCall("calculate_weight_single_qubit", 2, 1, pauli, single_qubit_config,
                 gate_config, 4, 4) :
        pauli \in PauliStrings(2), single_qubit_config \in [1..4 -> SlotSample],
        gate_config \in [1..1 -> [1..1 -> 0..2]] }
    \cup
    { OracleCall("calculate_weight_single_qubit", 2, 2, pauli, single_qubit_config,
                 gate_config, 4, 4) :
        pauli \in PauliStrings(2),
        single_qubit_config \in {<<2, 5, 0, 1, 6, 3>>, <<4, 4, 1, 2, 0, 0>>},
        gate_config \in [1..2 -> [1..1 -> 1..2]] }
    \cup
    { OracleCall("calculate_weight_single_qubit", 4, 2, pauli, single_qubit_config,
                 gate_config, 4, 4) :
        pauli \in {<<1, 0, 3, 2>>, <<0, 0, 0, 3>>, <<3, 3, 1, 1>>},
        single_qubit_config \in {<<2, 5, 3, 1, 6, 3, 4, 1, 1, 2, 5, 6>>,
                                 <<1, 6, 4, 2, 0, 0, 0, 0, 0, 0, 0, 0>>},
        gate_config \in {<< <<1, 0>>, <<2, 1>> >>, << <<0, 2>>, <<1, 1>> >>} }

\* dressed_gates_contract called directly, on states and CNOT tensors of
\* leg dimension 1, 2 (the signature encoding) or 4 (the Pauli encoding),
\* with a bond-dimension factor from 1 to MaxFactor
ContractCalls ==
    { OracleCall("dressed_gates_contract", 2, depth, <<3, 3>>, <<>>,
                 constant_rows(depth, 1, 1), gate_dim, bond_dim_factor) :
        depth \in 1..2, gate_dim \in {1, 2, 4}, bond_dim_factor \in 1..MaxFactor }

OracleCalls == IdentityCalls \cup StructureCalls \cup SingleQubitCalls \cup ContractCalls

\* the single-qubit slot (counted from 0) whose gate dress_twoq_gates puts on
\* each leg of each two-qubit tensor, -1 on a leg it leaves bare: the einsum
\* 'ak,bl,ijab->ijkl' puts s_layer[2i], s_layer[2i+1] on the legs k, l of
\* every layer, 'ia,jb,abkl->ijkl' puts last_s_layer[2i], last_s_layer[2i+1]
\* on the legs i, j of dressed_gates[-1]
dress_legs(N, depth) ==
    LET slots == reorder_single_qubit_config(
                     reshape_rows([b \in 1..(N * (depth + 1)) |-> b - 1], depth + 1, N))
    IN  [r \in 1..depth |->
            [p \in 1..(N \div 2) |->
                [i |-> IF r = depth THEN slots[depth + 1][2 * p - 1] ELSE -1,
                 j |-> IF r = depth THEN slots[depth + 1][2 * p] ELSE -1,
                 k |-> slots[r][2 * p - 1],
                 l |-> slots[r][2 * p]]]]

\* a boundary vector of dimension dim with its entry p set
one_hot(dim, p) == Tensor(<<dim>>, [i \in 1..dim |-> IF i - 1 = p THEN 1 ELSE 0], 1)

\* the gate tensors and boundary vectors a caller of dressed_gates_contract
\* passes for leg dimension 1
unit_gate == Tensor(<<1, 1, 1, 1>>, <<1>>, 1)

\* the boundary vectors of a call
call_state(call) ==
    CASE call.entry = "calculate_weight_single_qubit" ->
             [s \in 1..call.N |-> one_hot(4, call.pauli[s])]
      [] call.entry = "calculate_weight_structure" ->
             initial_state_sig([s \in 1..call.N |-> call.pauli[s] # 0])
      [] OTHER ->
             [s \in 1..call.N |-> one_hot(call.gate_dim, call.gate_dim - 1)]

\* the gate tensors of a call
call_gate_config_full(call) ==
    CASE call.entry = "calculate_weight_single_qubit" ->
             dress_twoq_gates(call.gate_config,
                              reshape_rows(call.single_qubit_config, call.depth + 1, call.N))
      [] call.entry = "calculate_weight_structure" ->
             [r \in 1..Len(call.gate_config) |->
                 [p \in 1..Len(call.gate_config[r]) |->
                     twrld_sig_twoq_dict(call.gate_config[r][p])]]
      [] OTHER ->
             [r \in 1..Len(call.gate_config) |->
                 [p \in 1..Len(call.gate_config[r]) |->
                     CASE call.gate_dim = 4 -> get_two_qubit_gate_dict(call.gate_config[r][p])
                       [] call.gate_dim = 2 -> twrld_sig_twoq_dict(call.gate_config[r][p])
                       [] OTHER -> unit_gate]]

\* the frame of a call before its first statement
OracleFrame(call) ==
    [call |-> call, step |-> "call", error |-> "", state |-> <<>>,
     gate_config_full |-> <<>>, legs |-> <<>>, tensor_chain |-> <<>>,
     meas_tensor |-> <<>>, d |-> call.depth - 2, contracted |-> <<>>,
     result |-> <<0, 1>>]

OracleInit ==
    /\ \E call \in OracleCalls : contraction = OracleFrame(call)
    /\ pc = "oracle"
    /\ dss_data = NoFrame /\ m = 0 /\ count_hits = <<>>
    /\ single_qubit_database = EmptyDict /\ structure_database = EmptyDict
    /\ structure_measurement_settings = <<>> /\ measurement_settings = <<>>
    /\ sd = NoFrame /\ sq = NoFrame

\* the variables of the derandomization run, which an oracle call leaves alone
run_vars ==
    <<dss_data, pc, m, count_hits, single_qubit_database, structure_database,
      structure_measurement_settings, measurement_settings, sd, sq>>

\* calculate_weight_structure and calculate_weight_single_qubit up to their
\* call of dressed_gates_contract: the gate tensors and the boundary state
BuildTensors ==
    /\ pc = "oracle" /\ contraction.step = "call"
    /\ contraction' =
           [contraction EXCEPT
               !.step = "entered",
               !.state = call_state(contraction.call),
               !.gate_config_full = call_gate_config_full(contraction.call),
               !.legs = IF contraction.call.entry = "calculate_weight_single_qubit"
                        THEN dress_legs(contraction.call.N, contraction.call.depth)
                        ELSE <<>>]
    /\ UNCHANGED run_vars

\* first_layer_gates = gate_config_full[-1], which raises IndexError on an
\* empty list, then apply_initial_gates: the boundary state is contracted
\* into the legs a, b of the last layer of gate_config_full
ContractInitial ==
    /\ pc = "oracle" /\ contraction.step = "entered"
    /\ IF Len(contraction.gate_config_full) = 0
       THEN contraction' = [contraction EXCEPT !.step = "raised", !.error = "IndexError"]
       ELSE \E depth_parity \in {contraction.call.depth % 2} :
            contraction' =
               [contraction EXCEPT
                   !.step = "initial",
                   !.tensor_chain =
                       apply_initial_gates(
                           pair_input_states(contraction.state, contraction.call.N,
                                             depth_parity),
                           contraction.gate_config_full[Len(contraction.gate_config_full)],
                           depth_parity) \o <<>>,
                   !.contracted = Append(@, [layer |-> Len(contraction.gate_config_full) - 1,
                                             legs |-> {"i", "j"},
                                             against |-> "state"])]
    /\ UNCHANGED run_vars

\* mat.reshape(new_shape) raises ValueError unless the sizes agree
reshape_raises(mat, bond_dim, depth_parity) ==
    Size(mat.shape) # bond_dim * bond_dim

\* reshape_for_temporal_contraction
ReshapeForTemporal ==
    /\ pc = "oracle" /\ contraction.step = "initial"
    /\ IF \E s \in 1..Len(contraction.tensor_chain) :
              reshape_raises(contraction.tensor_chain[s],
                             contraction.call.bond_dim_factor, contraction.call.depth % 2)
       THEN contraction' = [contraction EXCEPT !.step = "raised", !.error = "ValueError"]
       ELSE contraction' =
               [contraction EXCEPT
                   !.step = "reshaped",
                   !.tensor_chain =
                       reshape_for_temporal_contraction(
                           @, contraction.call.bond_dim_factor,
                           contraction.call.depth % 2) \o <<>>]
    /\ UNCHANGED run_vars

\* meas_tensor = get_measurement_tensor(bond_dim_factor)
MeasurementTensor ==
    /\ pc = "oracle" /\ contraction.step = "reshaped"
    /\ IF get_measurement_tensor_raises(contraction.call.bond_dim_factor)
       THEN contraction' = [contraction EXCEPT !.step = "raised", !.error = "ValueError"]
       ELSE contraction' =
               [contraction EXCEPT
                   !.step = "measured",
                   !.meas_tensor = get_measurement_tensor(contraction.call.bond_dim_factor)]
    /\ UNCHANGED run_vars

\* depth == 1: the two remaining legs k, l of the only layer are closed
\* against the measurement vector
CloseDepthOne ==
    /\ pc = "oracle" /\ contraction.step = "measured" /\ contraction.call.depth = 1
    /\ contraction' =
           [contraction EXCEPT
               !.step = "returned",
               !.result = close_depth_one(contraction.tensor_chain, contraction.meas_tensor,
                                          contraction.call.bond_dim_factor),
               !.contracted = Append(@, [layer |-> 0, legs |-> {"k", "l"},
                                         against |-> "measurement"])]
    /\ UNCHANGED run_vars

\* one pass of the loop of apply_middle_layers: layer d joins the chain
MiddleLayer ==
    /\ pc = "oracle" /\ contraction.step = "measured" /\ contraction.call.depth # 1
    /\ contraction.d >= 1
    /\ contraction' =
           [contraction EXCEPT
               !.d = @ - 1,
               !.tensor_chain =
                   [s \in 1..Len(contraction.tensor_chain) |->
                       middle_layer(contraction.tensor_chain[s],
                                    contraction.gate_config_full[contraction.d + 1][s],
                                    contraction.d % 2,
                                    contraction.call.bond_dim_factor)] \o <<>>,
               !.contracted = Append(@, [layer |-> contraction.d, legs |-> {"i", "j"},
                                         against |-> "chain"])]
    /\ UNCHANGED run_vars

\* apply_final_layer on gate_config_full[0], whose legs k, l are contracted
\* against the measurement vector, then the trace of the product
FinalLayer ==
    /\ pc = "oracle" /\ contraction.step = "measured" /\ contraction.call.depth # 1
    /\ contraction.d < 1
    /\ \E chain \in {apply_final_layer(contraction.tensor_chain,
                                        contraction.gate_config_full[1],
                                        contraction.meas_tensor,
                                        contraction.call.bond_dim_factor) \o <<>>} :
       contraction' =
           [contraction EXCEPT
               !.step = "returned",
               !.tensor_chain = chain,
               !.result = Trace(reduce_matmul(chain, Len(chain))),
               !.contracted = Append(@, [layer |-> 0, legs |-> {"k", "l"},
                                         against |-> "measurement"])]
    /\ UNCHANGED run_vars

OracleNext ==
    \/ BuildTensors
    \/ ContractInitial
    \/ ReshapeForTemporal
    \/ MeasurementTensor
    \/ CloseDepthOne
    \/ MiddleLayer
    \/ FinalLayer

OracleSpec == OracleInit /\ [][OracleNext]_vars

\* the call on the all-identity circuit: every two-qubit gate 0, every
\* single-qubit symbol 1
identity_circuit ==
    /\ contraction.call.entry = "calculate_weight_single_qubit"
    /\ \A r \in 1..Len(contraction.call.gate_config) :
           \A p \in 1..Len(contraction.call.gate_config[r]) :
               contraction.call.gate_config[r][p] = 0
    /\ \A b \in 1..Len(contraction.call.single_qubit_config) :
           contraction.call.single_qubit_config[b] = 1

\* C13: on the all-identity circuit calculate_weight_single_qubit returns
\* exactly 1 for an observable over {I, Z} only (the all-identity string
\* among them) and exactly 0 for an observable with an X or a Y site.
C13_IdentityCircuit ==
    (pc = "oracle" /\ contraction.step = "returned" /\ identity_circuit) =>
        contraction.result =
            IF \A s \in 1..contraction.call.N : contraction.call.pauli[s] \in {0, 3}
            THEN RInt(1) ELSE RInt(0)

\* the weight of ZIZZ under the all-identity circuit of 4 qubits and 2
\* layers has been returned
C13_Witness ==
    /\ pc = "oracle" /\ contraction.step = "returned" /\ identity_circuit
    /\ contraction.call.N = 4 /\ contraction.call.depth = 2
    /\ contraction.call.pauli = <<3, 0, 3, 3>>
    /\ contraction.result = RInt(1)

\* C14: every weight calculate_weight_structure and
\* calculate_weight_single_qubit return lies in [0, 1].
C14_UnitInterval ==
    (pc = "oracle" /\ contraction.step = "returned"
        /\ contraction.call.entry \in {"calculate_weight_structure",
                                       "calculate_weight_single_qubit"}) =>
        /\ RGeq(contraction.result, RInt(0))
        /\ RGeq(RInt(1), contraction.result)

\* a weight strictly between 0 and 1 has been returned for a single-qubit
\* configuration with random slots on the CNOT structure
C14_Witness ==
    /\ pc = "oracle" /\ contraction.step = "returned"
    /\ contraction.call.entry = "calculate_weight_single_qubit"
    /\ contraction.call.gate_config = << <<1>> >>
    /\ RLess(RInt(0), contraction.result) /\ RLess(contraction.result, RInt(1))

\* a returned call of calculate_weight_single_qubit
single_qubit_returned ==
    /\ pc = "oracle" /\ contraction.step = "returned"
    /\ contraction.call.entry = "calculate_weight_single_qubit"

LegNames == {"i", "j", "k", "l"}

\* the slots dress_twoq_gates put on the given legs of layer r (counted
\* from 1) of the dressed structure
slots_on(r, leg_names) ==
    { contraction.legs[r][p][leg] :
        p \in 1..Len(contraction.legs[r]), leg \in leg_names } \ {-1}

\* the slots on the legs that dressed_gates_contract contracted against the
\* given boundary ("state": the observable, "measurement": the vector of
\* get_measurement_tensor)
slots_against(boundary) ==
    UNION { slots_on(contraction.contracted[c].layer + 1, contraction.contracted[c].legs) :
              c \in { c \in 1..Len(contraction.contracted) :
                        contraction.contracted[c].against = boundary } }

\* C12: the first N entries of the single-qubit configuration sit on the
\* legs contracted against the measurement vector, the last N entries on the
\* legs contracted against the observable boundary state.
C12_MeasurementFirst ==
    single_qubit_returned =>
        /\ slots_against("measurement") = 0..(contraction.call.N - 1)
        /\ slots_against("state") =
               (contraction.call.N * contraction.call.depth)
                   ..(contraction.call.N * (contraction.call.depth + 1) - 1)

\* the layers (counted from 0, as gate_config is indexed) dressed on all
\* four legs
four_leg_layers ==
    { r - 1 : r \in { r \in 1..Len(contraction.legs) :
                        \A p \in 1..Len(contraction.legs[r]) :
                            \A leg \in LegNames : contraction.legs[r][p][leg] # -1 } }

\* the layers contracted against the given boundary
layers_against(boundary) ==
    { contraction.contracted[c].layer :
        c \in { c \in 1..Len(contraction.contracted) :
                  contraction.contracted[c].against = boundary } }

\* C18 as stated: the layer dressed on all four legs is the layer contracted
\* against the measurement vector.
C18_OuterIsMeasurementLayer ==
    single_qubit_returned => four_leg_layers = layers_against("measurement")

\* the 4x4 matrix on a leg: the gate of the slot, the unit matrix on a bare leg
leg_matrix(slot) ==
    IF slot = -1
    THEN Tensor2(4, 4, 1, LAMBDA a, b : IF a = b THEN 1 ELSE 0)
    ELSE get_single_qubit_gate_dict(contraction.call.single_qubit_config[slot + 1])

\* the two-qubit gate of layer r, pair p with the matrices of its four legs
\* absorbed
absorbed(r, p) ==
    einsum_dress_in(leg_matrix(contraction.legs[r][p].i),
                    leg_matrix(contraction.legs[r][p].j),
                    einsum_dress_out(leg_matrix(contraction.legs[r][p].k),
                                     leg_matrix(contraction.legs[r][p].l),
                                     get_two_qubit_gate_dict(
                                         contraction.call.gate_config[r][p])))

\* equal arrays, whatever the denominators they are written over
same_tensor(A, B) ==
    /\ A.shape = B.shape
    /\ \A x \in 1..Len(A.data) : A.data[x] * B.den = B.data[x] * A.den

\* C18, amended: the layer dressed on all four legs is the last row of the
\* structure, the one contracted against the observable boundary state (for
\* depth 1 it is also the layer closed against the measurement vector);
\* every other layer is dressed on exactly its legs k, l; each of the
\* N*(depth+1) slots is absorbed into exactly one leg of one tensor.
C18_OuterIsStateLayer ==
    single_qubit_returned =>
        /\ four_leg_layers = {contraction.call.depth - 1}
        /\ four_leg_layers = layers_against("state")
        /\ layers_against("measurement") = {0}
        /\ \A r \in 1..(contraction.call.depth - 1) :
               \A p \in 1..Len(contraction.legs[r]) :
                   /\ contraction.legs[r][p].i = -1 /\ contraction.legs[r][p].j = -1
                   /\ contraction.legs[r][p].k # -1 /\ contraction.legs[r][p].l # -1
        /\ \A slot \in 0..(contraction.call.N * (contraction.call.depth + 1) - 1) :
               Cardinality({ place \in (1..contraction.call.depth)
                                        \X (1..(contraction.call.N \div 2)) \X LegNames :
                               contraction.legs[place[1]][place[2]][place[3]] = slot }) = 1
        /\ \A r \in 1..contraction.call.depth :
               \A p \in 1..(contraction.call.N \div 2) :
                   same_tensor(contraction.gate_config_full[r][p], absorbed(r, p))

\* a call on 4 qubits and 2 layers with twelve slots, not all alike, has
\* returned: its four-leg layer is row 1, its measurement layer row 0
C18_Witness ==
    /\ single_qubit_returned
    /\ contraction.call.N = 4 /\ contraction.call.depth = 2
    /\ contraction.call.single_qubit_config = <<2, 5, 3, 1, 6, 3, 4, 1, 1, 2, 5, 6>>
    /\ four_leg_layers = {1}
    /\ layers_against("measurement") = {0}

\* a call the contraction cannot serve: no layer, or a bond-dimension
\* factor get_measurement_tensor does not know
unsupported_call ==
    \/ contraction.call.depth <= 0
    \/ contraction.call.bond_dim_factor \notin {2, 4}

\* C10: a call with depth <= 0 or a bond-dimension factor outside {2, 4}
\* ends in an error before any gate layer is contracted, and never returns
\* a value.
C10_FailFast ==
    (pc = "oracle" /\ unsupported_call) =>
        /\ contraction.contracted = <<>>
        /\ contraction.step # "returned"

----------------------------------------------------------------------------
(* cost.py: the two cost functions called on their own, as                 *)
(* structure_derandomization and single_qubit_derandomization call them,   *)
(* on hit counts, importance weights and database entries drawn from       *)
(* small sets.                                                             *)

\* count_hits entries, importance weights, weights of the candidate and of
\* the random configuration
CostHits == 0..2
CostWeights == {<<1, 2>>, <<1, 1>>}
CandidateWeights == {<<0, 1>>, <<1, 2>>}
RandomWeights == {<<1, 9>>, <<1, 3>>}

\* ZZ and XI on 2 qubits and 1 layer, 3 measurements at most, 2 per observable
CostConfigs ==
    { DSSConfig(2, 1, Q, 3, 2, << <<3, 3>>, <<1, 0>> >>, weights) :
        weights \in [1..2 -> CostWeights] }

\* the candidate of the structure pass and of the single-qubit pass
cost_this_config == << <<1>> >>
cost_test_one_gates == <<1, 5, 3, 1>>

\* the keys of the two candidates and of the random configuration
cost_structure_key == tobytes("int64", flatten(cost_this_config))
cost_single_qubit_key == single_qubit_key(cost_test_one_gates, cost_this_config)
cost_random_key == random_key(1, 2)

\* the key of the candidate in the database of its cost function
candidate_key ==
    IF sd # NoFrame THEN cost_structure_key ELSE cost_single_qubit_key

CostInit ==
    /\ pc = "cost"
    /\ dss_data \in CostConfigs
    /\ m \in 0..1
    /\ count_hits \in [1..2 -> {RInt(h) : h \in CostHits}]
    /\ \E rw \in [1..2 -> RandomWeights], cw \in [1..2 -> CandidateWeights],
          structure \in BOOLEAN, cached \in BOOLEAN :
          /\ sd = IF structure THEN [step |-> "call", this_cost |-> <<>>] ELSE NoFrame
          /\ sq = IF structure THEN NoFrame ELSE [step |-> "call", cost_test |-> <<>>]
          /\ structure_database =
                 IF structure /\ cached
                 THEN (cost_random_key :> rw)
                          @@ (cost_structure_key :> cw)
                 ELSE (cost_random_key :> rw)
          /\ single_qubit_database =
                 IF ~structure /\ cached
                 THEN cost_single_qubit_key :> cw
                 ELSE EmptyDict
    /\ structure_measurement_settings = <<>> /\ measurement_settings = <<>>
    /\ contraction = NoFrame

\* this_cost = confidence_cost_function_structure(...)
CostStructure ==
    /\ pc = "cost" /\ sd # NoFrame /\ sd.step = "call"
    /\ \E result \in {confidence_cost_function_structure(
                          dss_data.N, dss_data.depth, dss_data.q,
                          dss_data.max_num_measurements, m, cost_this_config,
                          dss_data.pauli_masks, count_hits, structure_database,
                          dss_data.weights, dss_data.measurements_per_observable)} :
          /\ sd' = [step |-> "returned", this_cost |-> result.cost]
          /\ structure_database' = result.structure_database
    /\ UNCHANGED <<dss_data, pc, m, count_hits, single_qubit_database,
                   structure_measurement_settings, measurement_settings, sq, contraction>>

\* cost_test = confidence_cost_function_single_qubit(...)
CostSingleQubit ==
    /\ pc = "cost" /\ sq # NoFrame /\ sq.step = "call"
    /\ \E result \in {confidence_cost_function_single_qubit(
                          dss_data.N, dss_data.depth, dss_data.q,
                          dss_data.max_num_measurements, m, cost_test_one_gates,
                          cost_this_config, dss_data.pauli_strings_to_learn,
                          dss_data.pauli_masks, count_hits, structure_database,
                          single_qubit_database, dss_data.weights,
                          dss_data.measurements_per_observable)} :
          /\ sq' = [step |-> "returned", cost_test |-> result.cost]
          /\ single_qubit_database' = result.single_qubit_database
    /\ UNCHANGED <<dss_data, pc, m, count_hits, structure_database,
                   structure_measurement_settings, measurement_settings, sd, contraction>>

\* the structure cost function called again, with the hit count, the
\* importance weight, the candidate weight and the random weight of one
\* observable l replaced
CostStructureAgain ==
    /\ pc = "cost" /\ sd # NoFrame /\ sd.step = "returned"
    /\ \E l \in 1..num_paulis, h \in CostHits, w \in CostWeights,
          c \in CandidateWeights, r \in RandomWeights :
       \E hits \in {[count_hits EXCEPT ![l] = RInt(h)]},
          weight \in {[dss_data.weights EXCEPT ![l] = w]},
          database \in {[structure_database EXCEPT ![cost_random_key][l] = r,
                                                    ![candidate_key][l] = c]} :
       \E result \in {confidence_cost_function_structure(
                          dss_data.N, dss_data.depth, dss_data.q,
                          dss_data.max_num_measurements, m, cost_this_config,
                          dss_data.pauli_masks, hits, database, weight,
                          dss_data.measurements_per_observable)} :
          /\ count_hits' = hits
          /\ dss_data' = [dss_data EXCEPT !.weights = weight]
          /\ structure_database' = result.structure_database
          /\ sd' = [step |-> "returned", this_cost |-> result.cost]
    /\ UNCHANGED <<pc, m, single_qubit_database, structure_measurement_settings,
                   measurement_settings, sq, contraction>>

\* the single-qubit cost function called again, likewise
CostSingleQubitAgain ==
    /\ pc = "cost" /\ sq # NoFrame /\ sq.step = "returned"
    /\ \E l \in 1..num_paulis, h \in CostHits, w \in CostWeights,
          c \in CandidateWeights, r \in RandomWeights :
       \E hits \in {[count_hits EXCEPT ![l] = RInt(h)]},
          weight \in {[dss_data.weights EXCEPT ![l] = w]},
          s_database \in {[structure_database EXCEPT ![cost_random_key][l] = r]},
          q_database \in {[single_qubit_database EXCEPT ![candidate_key][l] = c]} :
       \E result \in {confidence_cost_function_single_qubit(
                          dss_data.N, dss_data.depth, dss_data.q,
                          dss_data.max_num_measurements, m, cost_test_one_gates,
                          cost_this_config, dss_data.pauli_strings_to_learn,
                          dss_data.pauli_masks, hits, s_database, q_database, weight,
                          dss_data.measurements_per_observable)} :
          /\ count_hits' = hits
          /\ dss_data' = [dss_data EXCEPT !.weights = weight]
          /\ structure_database' = s_database
          /\ single_qubit_database' = result.single_qubit_database
          /\ sq' = [step |-> "returned", cost_test |-> result.cost]
    /\ UNCHANGED <<pc, m, structure_measurement_settings, measurement_settings,
                   sd, contraction>>

CostNext ==
    \/ CostStructure
    \/ CostSingleQubit
    \/ CostStructureAgain
    \/ CostSingleQubitAgain

CostSpec == CostInit /\ [][CostNext]_vars

\* a cost function has returned
cost_returned ==
    /\ pc = "cost"
    /\ IF sd # NoFrame THEN sd.step = "returned" ELSE sq.step = "returned"

\* the cost it returned
returned_cost == IF sd # NoFrame THEN sd.this_cost ELSE sq.cost_test

\* observable l has its floor(weight * measurements_per_observable) hits
reached_target(l) == count_hits[l][1] >= target(l) * count_hits[l][2]

\* the four inputs of observable l: hit count, importance weight, weight of
\* the candidate, weight of the random configuration
inputs_of(l) ==
    <<count_hits[l], dss_data.weights[l],
      IF sd # NoFrame THEN structure_database[candidate_key][l]
      ELSE single_qubit_database[candidate_key][l],
      structure_database[cost_random_key][l]>>

\* from one returned call to the next, only observables at target in both
\* had an input replaced
only_at_target_replaced ==
    /\ cost_returned /\ cost_returned'
    /\ \A l \in 1..num_paulis :
           inputs_of(l)' # inputs_of(l) => (reached_target(l) /\ reached_target(l)')

\* C8: in both cost functions an observable at target contributes nothing:
\* the cost is 0 when every observable is at target, and replacing the hit
\* count, importance weight, candidate weight or random weight of
\* observables that are at target before and after leaves the cost as it was.
C8_AtTargetContributesZero ==
    /\ []((cost_returned /\ \A l \in 1..num_paulis : reached_target(l)) =>
              returned_cost = RInt(0))
    /\ [][only_at_target_replaced => returned_cost' = returned_cost]_vars

\* the single-qubit cost function returned a positive cost with ZZ at
\* target, at more hits than its target, and XI below target
C8_Witness ==
    /\ cost_returned /\ sq # NoFrame
    /\ reached_target(1) /\ count_hits[1] = RInt(2) /\ dss_data.weights[1] = <<1, 2>>
    /\ ~reached_target(2)
    /\ inputs_of(1)[3] # RInt(0)
    /\ RLess(RInt(0), returned_cost)

====
